---- MODULE Spec2Model ----
(***************************************************************************)
(* A model of nemo_rl/models/generation/vllm.py: the placement planner     *)
(* (VllmGenerationWorker.configure_worker), the tied-group partitioner     *)
(* (VllmGeneration._get_tied_worker_bundle_indices), the construction of   *)
(* sampling parameters and the assembly of generation results by the       *)
(* worker (generate, generate_async, generate_text), the construction and  *)
(* the lifecycle entry points of the worker, the sharding annotations and  *)
(* the operations of the orchestrator (VllmGeneration) over its worker     *)
(* group.                                                                  *)
(*                                                                         *)
(* Encoding of Python values:                                              *)
(*   None            the empty tuple <<>>; Optional[x] holding x is <<x>>  *)
(*                   (or the tuple itself when x is a non-empty tuple)     *)
(*   dict            a function whose DOMAIN is the set of keys            *)
(*   list / tensor   a sequence (1-based here, 0-based in the source)      *)
(*   float           an integer number of tenths (temperature 0.7 is 7)    *)
(***************************************************************************)
EXTENDS Integers, Sequences, FiniteSets, TLC

VARIABLES
    \* ---- planner / partitioner (SpecPlan) ----
    bundle_counts,       \* pg.bundle_count of every placement group of the cluster
    tp_size,             \* sharding_annotations.get_axis_size("tensor_parallel")
    tied_worker_groups,  \* outcome of _get_tied_worker_bundle_indices
    plan,                \* the last call of configure_worker and what it returned
    \* ---- sampling parameters (SpecText) ----
    cfg,                 \* self.cfg of a worker (the keys the model reads)
    sampling,            \* the last sampling parameters built and for which entry point
    \* ---- worker generate (Spec) ----
    llm,                 \* self.llm: "LLM", "AsyncLLMEngine", "None", or "Unset" when
                         \* __init__ raised before it assigned self.llm
    call,                \* the last call of generate: its arguments and its outcome
    engine_requests,     \* what the call in `call` submitted to the engine
    \* ---- worker generate_async (Spec) ----
    acall,               \* the running call of generate_async: arguments and position
    request_id_to_context, \* request id -> the input row and length it was issued for
    task_futures,        \* request id -> state of the task consuming that request
    yielded,             \* the single-row batches yielded so far, in order
    \* ---- orchestrator and its worker group (SpecSys) ----
    layout,              \* sharding_annotations: row g holds the ranks of tied group g
    workers,             \* worker_group.workers: per rank, the worker's self.llm
    device_uuids,        \* self.device_uuids: per tied group, the ids it reported
    ocall,               \* the last call served: its arguments, dispatches and outcome
    futures              \* the futures of a dispatched generate, one per tied group

planVars     == <<bundle_counts, tp_size, tied_worker_groups, plan>>
samplingVars == <<sampling>>
workerVars   == <<cfg, llm>>
genVars      == <<call, engine_requests>>
asyncVars    == <<acall, request_id_to_context, task_futures, yielded>>
sysVars      == <<layout, workers, device_uuids, ocall, futures>>
vars == <<planVars, samplingVars, workerVars, genVars, asyncVars, sysVars>>

(***************************************************************************)
(* Bounds of the model.                                                    *)
(***************************************************************************)
MaxNodes   == 3   \* placement groups in the cluster
MaxBundles == 4   \* bundles on one node
MaxTP      == 3   \* tensor_parallel_size
MaxBatch   == 2   \* rows of an input batch
MaxWidth   == 3   \* padded width of an input batch
MaxGen     == 2   \* tokens the engine generates for one prompt
MaxDP      == 2   \* tied worker groups of the worker group (data-parallel size)
MaxRows    == 3   \* rows of a batch given to the orchestrator

(***************************************************************************)
(* Python values.                                                          *)
(***************************************************************************)
None == <<>>

EmptyDict == <<>>

\* d[k] = v on a dict
Put(d, k, v) == [kk \in (DOMAIN d) \cup {k} |-> IF kk = k THEN v ELSE d[kk]]

\* list(range(a, b))
Range(a, b) == [i \in 1..(b - a) |-> a + i - 1]

Max(a, b) == IF a >= b THEN a ELSE b

\* all sequences over S of length at most n
SeqsUpTo(S, n) == UNION {[1..k -> S] : k \in 0..n}

(***************************************************************************)
(* VllmGenerationWorker.configure_worker                                   *)
(***************************************************************************)
SeedStride == 1024

\* A seed whose stride is too small to keep the nodes apart.
WorkerSeedNarrow(node_idx, local_bundle_indices) ==
    node_idx + (local_bundle_indices[1] \div Len(local_bundle_indices))

\* seed = node_idx * 1024 + local_bundle_indices[0] // len(local_bundle_indices)
\* (local_bundle_indices[0] of the source is index 1 of the sequence)
WorkerSeed(node_idx, local_bundle_indices) ==
    node_idx * SeedStride + (local_bundle_indices[1] \div Len(local_bundle_indices))

\* A planner that treats a worker without bundle assignment like a single-device owner.
configure_worker_unassigned_keeps_share(num_gpus, bundle_indices) ==
    LET has == bundle_indices # None
        local == IF has THEN bundle_indices[2] ELSE None
        kw1 == IF has
               THEN Put(Put(EmptyDict, "bundle_indices", local),
                        "seed", WorkerSeed(bundle_indices[1], local))
               ELSE EmptyDict
        tp == has /\ Len(local) > 1
    IN  [resources   |-> [num_gpus |-> IF tp THEN 0 ELSE num_gpus],
         env_vars    |-> IF tp
                         THEN [RAY_EXPERIMENTAL_NOSET_CUDA_VISIBLE_DEVICES |-> "1",
                               VLLM_ENABLE_V1_MULTIPROCESSING |-> "0",
                               VLLM_SKIP_P2P_CHECK |-> "1"]
                         ELSE [VLLM_ENABLE_V1_MULTIPROCESSING |-> "0",
                               VLLM_SKIP_P2P_CHECK |-> "1"],
         init_kwargs |-> IF tp THEN Put(kw1, "fraction_of_gpus", num_gpus) ELSE kw1]

\* A planner that zeroes the device request of every owner, single-device ones included.
configure_worker_always_zero(num_gpus, bundle_indices) ==
    LET has == bundle_indices # None
        local == IF has THEN bundle_indices[2] ELSE None
        kw1 == IF has
               THEN Put(Put(EmptyDict, "bundle_indices", local),
                        "seed", WorkerSeed(bundle_indices[1], local))
               ELSE EmptyDict
    IN  [resources   |-> [num_gpus |-> 0],
         env_vars    |-> [RAY_EXPERIMENTAL_NOSET_CUDA_VISIBLE_DEVICES |-> "1",
                          VLLM_ENABLE_V1_MULTIPROCESSING |-> "0",
                          VLLM_SKIP_P2P_CHECK |-> "1"],
         init_kwargs |-> Put(kw1, "fraction_of_gpus", num_gpus)]

\* bundle_indices is None or <<node_idx, local_bundle_indices>>
configure_worker(num_gpus, bundle_indices) ==
    LET resources0   == [num_gpus |-> num_gpus]
        init_kwargs0 == EmptyDict
        env_vars0    == EmptyDict
        has          == bundle_indices # None
        node_idx             == IF has THEN bundle_indices[1] ELSE None
        local_bundle_indices == IF has THEN bundle_indices[2] ELSE None
        init_kwargs1 ==
            IF has
            THEN Put(Put(init_kwargs0, "bundle_indices", local_bundle_indices),
                     "seed", WorkerSeed(node_idx, local_bundle_indices))
            ELSE init_kwargs0
        is_part_of_tp_workers ==
            \/ (local_bundle_indices # None /\ Len(local_bundle_indices) > 1)
            \/ local_bundle_indices = None
        resources1   == IF is_part_of_tp_workers
                        THEN Put(resources0, "num_gpus", 0) ELSE resources0
        env_vars1    == IF is_part_of_tp_workers
                        THEN Put(env_vars0, "RAY_EXPERIMENTAL_NOSET_CUDA_VISIBLE_DEVICES", "1")
                        ELSE env_vars0
        init_kwargs2 == IF is_part_of_tp_workers
                        THEN Put(init_kwargs1, "fraction_of_gpus", num_gpus)
                        ELSE init_kwargs1
        env_vars2    == Put(env_vars1, "VLLM_ENABLE_V1_MULTIPROCESSING", "0")
        env_vars3    == Put(env_vars2, "VLLM_SKIP_P2P_CHECK", "1")
    IN  [resources |-> resources1, env_vars |-> env_vars3, init_kwargs |-> init_kwargs2]

(***************************************************************************)
(* VllmGeneration._get_tied_worker_bundle_indices                          *)
(***************************************************************************)
\* An inner loop that also makes a group of the remainder bundles of the node.
GroupsOnNodeWithPartial(node_idx, tp, tied_worker_groups_on_node) ==
    [g \in 1..(tied_worker_groups_on_node + 1) |->
        LET group_idx == g - 1
            start_idx == group_idx * tp
            end_idx   == start_idx + tp
        IN  <<node_idx, Range(start_idx, end_idx)>>]

\* An inner loop whose groups overlap: it steps by tp - 1 instead of tp.
GroupsOnNodeOverlapping(node_idx, tp, tied_worker_groups_on_node) ==
    [g \in 1..tied_worker_groups_on_node |->
        LET group_idx == g - 1
            start_idx == group_idx * (tp - 1)
            end_idx   == start_idx + tp
        IN  <<node_idx, Range(start_idx, end_idx)>>]

\* the inner loop: for group_idx in range(tied_worker_groups_on_node)
GroupsOnNode(node_idx, tp, tied_worker_groups_on_node) ==
    [g \in 1..tied_worker_groups_on_node |->
        LET group_idx == g - 1
            start_idx == group_idx * tp
            end_idx   == start_idx + tp
        IN  <<node_idx, Range(start_idx, end_idx)>>]

\* the outer loop: for node_idx, pg in enumerate(placement_groups), from position p on
RECURSIVE TiedGroupsFrom(_, _, _)
TiedGroupsFrom(pgs, tp, p) ==
    IF p > Len(pgs) THEN <<>>
    ELSE LET node_idx        == p - 1
             bundles_on_node == pgs[p]
             tied_worker_groups_on_node == bundles_on_node \div tp
         IN  (IF tied_worker_groups_on_node > 0
              THEN GroupsOnNode(node_idx, tp, tied_worker_groups_on_node)
              ELSE <<>>)
             \o TiedGroupsFrom(pgs, tp, p + 1)

\* A partitioner that returns the empty list instead of raising.
get_tied_worker_bundle_indices_no_raise(pgs, tp) ==
    [outcome |-> "returned", value |-> TiedGroupsFrom(pgs, tp, 1)]

get_tied_worker_bundle_indices(pgs, tp) ==
    LET groups == TiedGroupsFrom(pgs, tp, 1)
    IN  IF groups = <<>>
        THEN [outcome |-> "raised", value |-> <<>>]      \* ValueError
        ELSE [outcome |-> "returned", value |-> groups]


(***************************************************************************)
(* VllmGeneration.__init__: the sharding annotations.                      *)
(***************************************************************************)
\* RayVirtualCluster.world_size(): the bundles of all the placement groups, from
\* position p on
RECURSIVE world_size(_, _)
world_size(pgs, p) == IF p > Len(pgs) THEN 0 ELSE pgs[p] + world_size(pgs, p + 1)

\* np.arange(world_size).reshape(-1, tp): row g holds the ranks of tied group g
LayoutOf(dp, tp) == [g \in 1..dp |-> [t \in 1..tp |-> (g - 1) * tp + t]]

\* layout=np.arange(cluster.world_size()).reshape(-1, tensor_parallel_size): reshape
\* raises ValueError when the size is not a multiple of tensor_parallel_size
sharding_layout(cluster_world_size, tp) ==
    IF cluster_world_size % tp # 0 THEN [outcome |-> "raised", layout |-> <<>>]
    ELSE [outcome |-> "returned", layout |-> LayoutOf(cluster_world_size \div tp, tp)]

(***************************************************************************)
(* VllmGenerationWorker._build_sampling_params and the sampling parameters *)
(* generate_text builds inline.  Of vllm.SamplingParams the model keeps    *)
(* the fields that depend on greedy and the ones copied from self.cfg.     *)
(***************************************************************************)
\* A builder that forgets greedy for top_k.
build_sampling_params_topk_from_cfg(selfcfg, greedy) ==
    [temperature |-> IF greedy THEN 0 ELSE selfcfg.temperature,
     top_p       |-> selfcfg.top_p,
     top_k       |-> IF selfcfg.top_k # None THEN selfcfg.top_k[1] ELSE -1,
     max_tokens  |-> selfcfg.max_new_tokens]

build_sampling_params(selfcfg, greedy) ==
    LET top_k_cfg   == selfcfg.top_k
        top_k_val   == IF greedy THEN 1
                       ELSE (IF top_k_cfg # None THEN top_k_cfg[1] ELSE -1)
        temperature == IF greedy THEN 0 ELSE selfcfg.temperature
    IN  [temperature |-> temperature,
         top_p       |-> selfcfg.top_p,
         top_k       |-> top_k_val,
         max_tokens  |-> selfcfg.max_new_tokens]

\* generate_text: top_k = cfg["top_k"] if not None else -1; then the greedy override
generate_text_sampling_params(selfcfg, greedy) ==
    LET top_k == IF selfcfg.top_k # None THEN selfcfg.top_k[1] ELSE -1
    IN  [temperature |-> IF ~greedy THEN selfcfg.temperature ELSE 0,
         top_p       |-> selfcfg.top_p,
         top_k       |-> IF ~greedy THEN top_k ELSE 1,
         max_tokens  |-> selfcfg.max_new_tokens]

(***************************************************************************)
(* VllmGenerationWorker.generate: assembly of the result.                  *)
(* Rows, positions and generated-token indices are 1-based here: row i,    *)
(* position p of the model are row i-1, position p-1 of the source.        *)
(***************************************************************************)
\* A row assembly that appends the generated tokens after the padded input.
FullOutputAfterPadding(pad_token_id, input_row, sequence_length, generated_tokens, total_length) ==
    [p \in 1..total_length |->
        IF p <= sequence_length THEN input_row[p]
        ELSE IF p > Len(input_row) /\ p <= Len(input_row) + Len(generated_tokens)
             THEN generated_tokens[p - Len(input_row)]
             ELSE pad_token_id]

\* A row assembly that does not copy the input.
FullOutputNoInput(pad_token_id, input_row, sequence_length, generated_tokens, total_length) ==
    [p \in 1..total_length |->
        IF p > sequence_length /\ p <= sequence_length + Len(generated_tokens)
        THEN generated_tokens[p - sequence_length]
        ELSE pad_token_id]

\* torch.full((total_length,), pad) followed by the two slice assignments
FullOutput(pad_token_id, input_row, sequence_length, generated_tokens, total_length) ==
    [p \in 1..total_length |->
        IF p <= sequence_length THEN input_row[p]
        ELSE IF p <= sequence_length + Len(generated_tokens)
             THEN generated_tokens[p - sequence_length]
             ELSE pad_token_id]

\* A row of logprobs written from the start of the row, not after the input.
FullLogprobsUnshifted(sequence_length, logprobs, total_length) ==
    [p \in 1..total_length |->
        IF logprobs # None /\ p \in 1..Len(logprobs) /\ logprobs[p] # None
        THEN logprobs[p][1][2]
        ELSE 0]

\* generation.logprobs is None or one entry per generated token; an entry is None or
\* a dict token id -> logprob, here the sequence of its <<token id, logprob>> items in
\* iteration order.  A write at a position >= total_length raises IndexError, which
\* the handler catches: the writes made before it stay, so only positions inside the
\* row are ever written.
FullLogprobs(sequence_length, logprobs, total_length) ==
    [p \in 1..total_length |->
        LET idx == p - sequence_length      \* 1-based index of the generated token
        IN  IF logprobs # None /\ idx \in 1..Len(logprobs) /\ logprobs[idx] # None
            THEN logprobs[idx][1][2]        \* next(iter(logprob_dict.items()))[1].logprob
            ELSE 0]

RECURSIVE MaxGenerated(_, _)
\* max_length = max(max_length, len(output.outputs[0].token_ids)) over outputs[p..]
MaxGenerated(outputs, p) ==
    IF p > Len(outputs) THEN 0
    ELSE Max(Len(outputs[p].token_ids), MaxGenerated(outputs, p + 1))

\* An empty result that lacks the logprobs field.
EmptyResultNoLogprobs ==
    [output_ids |-> <<>>, generation_lengths |-> <<>>, unpadded_sequence_lengths |-> <<>>]

\* the result of an empty input batch
EmptyResult ==
    [output_ids |-> <<>>, logprobs |-> <<>>,
     generation_lengths |-> <<>>, unpadded_sequence_lengths |-> <<>>]

\* the prompts submitted to the engine: each row cut to its valid length
Prompts(data) ==
    [i \in DOMAIN data.input_ids |->
        [prompt_token_ids |-> SubSeq(data.input_ids[i], 1, data.input_lengths[i])]]

\* A result whose unpadded lengths count the padded width of the input rows.
AssembleResultPaddedLengths(pad_token_id, data, outputs) ==
    LET padded_input_length == Len(data.input_ids[1])
        total_length == padded_input_length + MaxGenerated(outputs, 1)
    IN  [output_ids |->
            [i \in DOMAIN outputs |->
                FullOutput(pad_token_id, data.input_ids[i], data.input_lengths[i],
                           outputs[i].token_ids, total_length)],
         logprobs |->
            [i \in DOMAIN outputs |->
                FullLogprobs(data.input_lengths[i], outputs[i].logprobs, total_length)],
         generation_lengths |->
            [i \in DOMAIN outputs |-> Len(outputs[i].token_ids)],
         unpadded_sequence_lengths |->
            [i \in DOMAIN outputs |-> padded_input_length + Len(outputs[i].token_ids)]]

\* the loop over enumerate(outputs) and the returned BatchedDataDict
AssembleResult(pad_token_id, data, outputs) ==
    LET padded_input_length == Len(data.input_ids[1])
        max_length   == MaxGenerated(outputs, 1)
        total_length == padded_input_length + max_length
    IN  [output_ids |->
            [i \in DOMAIN outputs |->
                FullOutput(pad_token_id, data.input_ids[i], data.input_lengths[i],
                           outputs[i].token_ids, total_length)],
         logprobs |->
            [i \in DOMAIN outputs |->
                FullLogprobs(data.input_lengths[i], outputs[i].logprobs, total_length)],
         generation_lengths |->
            [i \in DOMAIN outputs |-> Len(outputs[i].token_ids)],
         unpadded_sequence_lengths |->
            [i \in DOMAIN outputs |-> data.input_lengths[i] + Len(outputs[i].token_ids)]]

\* generate(data, greedy) on a worker with configuration selfcfg and engine handle
\* selfllm, when the engine answers the submitted prompts with `outputs`.
\* `requests` is what the call submitted to the engine.
generate(selfcfg, selfllm, data, greedy, outputs) ==
    IF Len(data.input_ids) = 0
    THEN [outcome |-> "returned", error |-> "", result |-> EmptyResult,
          requests |-> <<>>]
    ELSE LET sampling_params == build_sampling_params(selfcfg, greedy)
             prompts == Prompts(data)
         IN  IF selfllm = "None"
             THEN [outcome |-> "raised", error |-> "AssertionError",
                   result |-> None, requests |-> <<>>]
             ELSE IF selfllm = "Unset"
             THEN \* self.llm is the method llm of the class: it has no generate
                  [outcome |-> "raised", error |-> "AttributeError",
                   result |-> None, requests |-> <<>>]
             ELSE IF selfllm = "AsyncLLMEngine"
             THEN \* no flavor check: the call reaches the asynchronous engine, whose
                  \* generate takes one prompt and a request_id
                  [outcome |-> "raised", error |-> "TypeError", result |-> None,
                   requests |-> << [prompts |-> prompts,
                                    sampling_params |-> sampling_params] >>]
             ELSE [outcome |-> "returned", error |-> "",
                   result |-> AssembleResult(selfcfg.pad_token_id, data, outputs),
                   requests |-> << [prompts |-> prompts,
                                    sampling_params |-> sampling_params] >>]

(***************************************************************************)
(* Values of the variables a specification does not use.                   *)
(***************************************************************************)
NoPlan     == [called |-> FALSE]
NoGroups   == [outcome |-> "pending", value |-> <<>>]
NoSampling == [built |-> FALSE]
NoCall     == [op |-> "none", outcome |-> "none"]
NoCfg      == [async_engine |-> FALSE]

PlanIdle     == /\ bundle_counts = <<>> /\ tp_size = 1
                /\ tied_worker_groups = NoGroups /\ plan = NoPlan
SamplingIdle == sampling = NoSampling
WorkerIdle   == cfg = NoCfg /\ llm = "None"
GenIdle      == call = NoCall /\ engine_requests = <<>>
SysIdle      == /\ layout = <<>> /\ workers = <<>> /\ device_uuids = <<>>
                /\ ocall = NoCall /\ futures = <<>>
AsyncIdle    == /\ acall = NoCall /\ request_id_to_context = EmptyDict
                /\ task_futures = EmptyDict /\ yielded = <<>>

(***************************************************************************)
(* SpecPlan: a cluster is partitioned into tied worker groups and workers  *)
(* are planned for its groups.                                             *)
(***************************************************************************)
\* the device share a worker is created with (placement group: one device per bundle)
GpuShares == {1, 2}

Clusters == UNION {[1..n -> 1..MaxBundles] : n \in 1..MaxNodes}

InitPlan ==
    /\ bundle_counts \in Clusters
    /\ tp_size \in 1..MaxTP
    /\ tied_worker_groups = NoGroups
    /\ plan = NoPlan
    /\ SamplingIdle /\ WorkerIdle /\ GenIdle /\ AsyncIdle /\ SysIdle

\* VllmGeneration._get_tied_worker_bundle_indices(cluster)
GetTiedWorkerBundleIndices ==
    /\ tied_worker_groups.outcome = "pending"
    /\ tied_worker_groups' = get_tied_worker_bundle_indices(bundle_counts, tp_size)
    /\ UNCHANGED <<bundle_counts, tp_size, plan>>
    /\ UNCHANGED <<samplingVars, workerVars, genVars, asyncVars, sysVars>>

\* The bundle_indices a worker of the group is created with: the entry of its tied
\* group for the group's leader, None for the other workers of the group.
BundleIndicesArgs ==
    {None} \cup {tied_worker_groups.value[i] : i \in DOMAIN tied_worker_groups.value}

\* VllmGenerationWorker.configure_worker(num_gpus, bundle_indices)
ConfigureWorker ==
    /\ tied_worker_groups.outcome = "returned"
    /\ \E num_gpus \in GpuShares, bundle_indices \in BundleIndicesArgs :
          plan' = [called |-> TRUE, num_gpus |-> num_gpus,
                   bundle_indices |-> bundle_indices,
                   result |-> configure_worker(num_gpus, bundle_indices)]
    /\ UNCHANGED <<bundle_counts, tp_size, tied_worker_groups>>
    /\ UNCHANGED <<samplingVars, workerVars, genVars, asyncVars, sysVars>>

\* VllmGeneration.__init__ builds self.sharding_annotations for the cluster; when
\* reshape raises, the construction ends there and no layout exists.
BuildShardingAnnotations ==
    /\ layout = <<>>
    /\ LET r == sharding_layout(world_size(bundle_counts, 1), tp_size)
       IN  /\ r.outcome = "returned"
           /\ layout' = r.layout
    /\ UNCHANGED <<workers, device_uuids, ocall, futures>>
    /\ UNCHANGED <<planVars, samplingVars, workerVars, genVars, asyncVars>>

NextPlan == GetTiedWorkerBundleIndices \/ ConfigureWorker \/ BuildShardingAnnotations

SpecPlan == InitPlan /\ [][NextPlan]_vars

(***************************************************************************)
(* Inputs of the worker specifications.                                    *)
(***************************************************************************)
\* Worker configurations: self.cfg of a worker.  temperature and top_p are in tenths.
SyncCfg ==
    [async_engine |-> FALSE, temperature |-> 7, top_p |-> 9, top_k |-> <<50>>,
     max_new_tokens |-> MaxGen, pad_token_id |-> 0]

Temperatures == {0, 3, 7, 10, 15}
TopKs        == {None, <<1>>, <<2>>, <<50>>, <<-1>>}

SamplingCfgs ==
    {[SyncCfg EXCEPT !.temperature = t, !.top_k = k] : t \in Temperatures, k \in TopKs}

\* Input batches with valid right padding.  The tokens of a batch are either all
\* different (row i, position p holds 10*i + p) or all the same token.
TokenStyles == {"distinct", "same"}
InputToken(style, i, p) == IF style = "distinct" THEN 10 * i + p ELSE 1

BatchOf(pad_token_id, b, w, lens, style) ==
    [input_ids |->
        [i \in 1..b |-> [p \in 1..w |->
            IF p <= lens[i] THEN InputToken(style, i, p) ELSE pad_token_id]],
     input_lengths |-> lens]

Batches(pad_token_id) ==
    UNION {UNION {{BatchOf(pad_token_id, b, w, lens, style) :
                        lens \in [1..b -> 0..w], style \in TokenStyles} :
                  w \in 0..MaxWidth} :
           b \in 0..MaxBatch}

\* What the engine answers for the prompt of row i: n generated tokens, all different
\* from each other and from the input (or all equal to the pad token, as when the pad
\* token is the end-of-sequence token), with or without log-probabilities.
GenStyles == {"distinct", "pad"}
GenToken(pad_token_id, style, i, k) ==
    IF style = "distinct" THEN 100 + 10 * i + k ELSE pad_token_id
LogprobOf(i, k) == 0 - (10 * i + k)

EngineOutput(pad_token_id, style, with_logprobs, i, n) ==
    [token_ids |-> [k \in 1..n |-> GenToken(pad_token_id, style, i, k)],
     logprobs  |-> IF with_logprobs
                   THEN [k \in 1..n |->
                            << <<GenToken(pad_token_id, style, i, k), LogprobOf(i, k)>> >>]
                   ELSE None]

\* An answer whose log-probabilities lack the first step: the engine reported an
\* empty dict for it.
EngineOutputSparse(pad_token_id, i, n) ==
    LET whole == EngineOutput(pad_token_id, "distinct", TRUE, i, n)
    IN  [whole EXCEPT !.logprobs = [k \in 1..n |-> IF k = 1 THEN None ELSE @[k]]]

EngineOutputs(pad_token_id, b) ==
    {[i \in 1..b |-> EngineOutput(pad_token_id, style, lp, i, gl[i])] :
        gl \in [1..b -> 0..MaxGen], style \in GenStyles, lp \in BOOLEAN}
    \cup {[i \in 1..b |-> EngineOutputSparse(pad_token_id, i, MaxGen)]}

\* The outcome of an entry point: what it returned (None, or <<x>> for the value x) or
\* raised, the calls it made on the engine, and self.llm after it.
WorkerReturned(value, engine, selfllm) ==
    [outcome |-> "returned", error |-> "", value |-> value, engine |-> engine,
     llm |-> selfllm]
WorkerRaised(error, engine, selfllm) ==
    [outcome |-> "raised", error |-> error, value |-> None, engine |-> engine,
     llm |-> selfllm]

\* VllmGenerationWorker.__init__(config, bundle_indices): self.llm after it.  A worker
\* built without bundle indices loads no engine; engine_ok false stands for a
\* construction that raised (vllm missing, the engine failing to load) before it
\* assigned self.llm.
VllmGenerationWorker_init(selfcfg, bundle_indices, engine_ok) ==
    IF bundle_indices = None THEN "None"
    ELSE IF ~engine_ok THEN "Unset"
    ELSE IF selfcfg.async_engine THEN "AsyncLLMEngine" ELSE "LLM"

\* A shutdown that reports failure when there is no engine left to release.
shutdown_fails_without_engine(selfcfg, selfllm, eng) ==
    IF selfllm = "None" THEN WorkerReturned(<<FALSE>>, <<>>, "None")
    ELSE WorkerReturned(<<TRUE>>, <<>>, "None")

\* A shutdown without its outer try.
shutdown_propagating(selfcfg, selfllm, eng) ==
    IF selfllm = "Unset" THEN WorkerRaised("AttributeError", <<>>, "Unset")
    ELSE WorkerReturned(<<TRUE>>,
                        IF selfllm # "None" /\ selfcfg.async_engine
                        THEN <<"shutdown_background_loop">> ELSE <<>>,
                        "None")

\* VllmGenerationWorker.shutdown.  An exception of shutdown_background_loop (eng) is
\* caught and printed by the inner try and the handler goes on.  On a worker whose
\* construction raised, self.llm is the method llm of the class: it is not None, it
\* has no shutdown_background_loop (caught by the inner try) and `del self.llm` finds
\* no attribute of the instance to delete (AttributeError, caught by the outer try).
shutdown(selfcfg, selfllm, eng) ==
    IF selfllm = "Unset" THEN WorkerReturned(<<FALSE>>, <<>>, "Unset")
    ELSE WorkerReturned(<<TRUE>>,
                        IF selfllm # "None" /\ selfcfg.async_engine
                        THEN <<"shutdown_background_loop">> ELSE <<>>,
                        "None")

(***************************************************************************)
(* Spec: a worker, of either engine flavor and owner of an engine or not,  *)
(* serves a generate or a generate_async call, or is shut down.            *)
(***************************************************************************)
AsyncCfg == [SyncCfg EXCEPT !.async_engine = TRUE]

Init ==
    /\ cfg \in {SyncCfg, AsyncCfg}
    \* built with or without bundle indices, the construction succeeding or raising
    /\ llm \in {VllmGenerationWorker_init(cfg, bundle_indices, engine_ok) :
                    bundle_indices \in {None, <<0>>}, engine_ok \in BOOLEAN}
    /\ call = NoCall
    /\ engine_requests = <<>>
    /\ AsyncIdle
    /\ PlanIdle /\ SamplingIdle /\ SysIdle

\* VllmGenerationWorker.generate(data, greedy).  The handler reads self.cfg and
\* self.llm and writes neither, so a call does not depend on the calls before it: the
\* model follows one call from every worker state.
Generate ==
    /\ call = NoCall /\ acall = NoCall
    /\ \E data \in Batches(cfg.pad_token_id), greedy \in BOOLEAN :
       \E outputs \in EngineOutputs(cfg.pad_token_id, Len(data.input_ids)) :
          LET r == generate(cfg, llm, data, greedy, outputs)
          IN  /\ call' = [op |-> "generate", data |-> data, greedy |-> greedy,
                          outputs |-> IF r.outcome = "returned" /\ r.requests # <<>>
                                      THEN outputs ELSE <<>>,
                          outcome |-> r.outcome, error |-> r.error,
                          result |-> r.result]
              /\ engine_requests' = r.requests
    /\ UNCHANGED <<planVars, samplingVars, workerVars, asyncVars, sysVars>>

(***************************************************************************)
(* SpecText: sampling parameters are built for every configuration, by     *)
(* _build_sampling_params (for generate and generate_async) and by         *)
(* generate_text.                                                          *)
(***************************************************************************)
TextPrompts == SeqsUpTo({"p", "q"}, MaxBatch)
EngineTexts(n) == [1..n -> {"x", "y"}]

generate_text(selfcfg, selfllm, data, greedy, outputs) ==
    LET sampling_params == generate_text_sampling_params(selfcfg, greedy)
    IN  IF selfllm = "None"
        THEN [outcome |-> "raised", error |-> "AssertionError", result |-> None,
              requests |-> <<>>]
        ELSE IF selfllm = "AsyncLLMEngine"
        THEN \* no flavor check: the call reaches the asynchronous engine, whose
             \* generate takes one prompt and a request_id
             [outcome |-> "raised", error |-> "TypeError", result |-> None,
              requests |-> << [prompts |-> data.prompts,
                               sampling_params |-> sampling_params] >>]
        ELSE [outcome |-> "returned", error |-> "",
              result |-> [texts |-> [i \in DOMAIN outputs |-> outputs[i]]],
              requests |-> << [prompts |-> data.prompts,
                               sampling_params |-> sampling_params] >>]

InitText ==
    /\ cfg \in SamplingCfgs
    /\ llm \in {"LLM", "None"}
    /\ sampling = NoSampling
    /\ call = NoCall
    /\ engine_requests = <<>>
    /\ PlanIdle /\ AsyncIdle /\ SysIdle

\* VllmGenerationWorker._build_sampling_params(greedy=..., stop_strings=...)
BuildSamplingParams ==
    /\ sampling = NoSampling
    /\ \E greedy \in BOOLEAN :
          sampling' = [built |-> TRUE, greedy |-> greedy,
                       params |-> build_sampling_params(cfg, greedy)]
    /\ UNCHANGED <<planVars, workerVars, genVars, asyncVars, sysVars>>

\* VllmGenerationWorker.generate_text(data, greedy)
GenerateText ==
    /\ call = NoCall
    /\ \E prompts \in TextPrompts, greedy \in BOOLEAN :
       \E outputs \in EngineTexts(Len(prompts)) :
          LET r == generate_text(cfg, llm, [prompts |-> prompts], greedy, outputs)
          IN  /\ call' = [op |-> "generate_text", data |-> [prompts |-> prompts],
                          greedy |-> greedy,
                          outputs |-> IF r.requests = <<>> THEN <<>> ELSE outputs,
                          outcome |-> r.outcome, error |-> r.error,
                          result |-> r.result]
              /\ engine_requests' = r.requests
    /\ UNCHANGED <<planVars, samplingVars, workerVars, asyncVars, sysVars>>

NextText == BuildSamplingParams \/ GenerateText

SpecText == InitText /\ [][NextText]_vars

(***************************************************************************)
(* generate_async.  The requests are issued together; their tasks complete *)
(* in any order and the loop over asyncio.as_completed handles each        *)
(* completed task in completion order.                                     *)
(***************************************************************************)
\* the dict lookup logprob_dict[token_id] on the items of a dict
RECURSIVE DictGet(_, _, _)
DictGet(items, key, p) ==
    IF p > Len(items) THEN None
    ELSE IF items[p][1] = key THEN <<items[p][2]>> ELSE DictGet(items, key, p + 1)

\* the logprobs row of the single-row batch
AsyncLogprobs(original_input_actual_length, generated_token_ids, logprobs, final_len) ==
    [p \in 1..final_len |->
        LET idx == p - original_input_actual_length
        IN  IF /\ logprobs # None
               /\ idx \in 1..Len(logprobs)
               /\ logprobs[idx] # None
               /\ idx <= Len(generated_token_ids)
               /\ DictGet(logprobs[idx], generated_token_ids[idx], 1) # None
            THEN DictGet(logprobs[idx], generated_token_ids[idx], 1)[1]
            ELSE 0]

\* the single-row batch built for a completed request from the context stored for it
AsyncRowResult(pad_token_id, context, output) ==
    LET original_input_ids_single_row == context.original_input_ids_row
        original_input_actual_length  == context.original_input_length_scalar
        generated_token_ids   == output.token_ids
        num_generated_tokens  == Len(generated_token_ids)
        final_output_tensor_len ==
            Len(original_input_ids_single_row) + num_generated_tokens
    IN  [output_ids |->
            << FullOutput(pad_token_id, original_input_ids_single_row,
                          original_input_actual_length, generated_token_ids,
                          final_output_tensor_len) >>,
         logprobs |->
            << AsyncLogprobs(original_input_actual_length, generated_token_ids,
                             output.logprobs, final_output_tensor_len) >>,
         generation_lengths |-> << num_generated_tokens >>,
         unpadded_sequence_lengths |->
            << original_input_actual_length + num_generated_tokens >>]

\* A context that always holds the first row of the batch.
ContextOfFirstRow(data, i) ==
    [original_input_ids_row |-> data.input_ids[1],
     original_input_length_scalar |-> data.input_lengths[1]]

\* the context stored for the request issued for row i
ContextOf(data, i) ==
    [original_input_ids_row |-> data.input_ids[i],
     original_input_length_scalar |-> data.input_lengths[i]]

\* Identifiers that are the same for every request.
RequestIdsShared(b) == {[i \in 1..b |-> 1]}

\* uuid.uuid4() gives every request a fresh identifier: row i gets ids[i], where ids
\* is an injection; the model tries the two extreme ones.
RequestIdAssignments(b) == {[i \in 1..b |-> i], [i \in 1..b |-> b + 1 - i]}

AsyncBatches(pad_token_id) ==
    {d \in Batches(pad_token_id) :
        \A i \in DOMAIN d.input_ids :
            \A p \in 1..d.input_lengths[i] :
                d.input_ids[i][p] = InputToken("distinct", i, p)}

\* generate_async(data, greedy) up to its first await: the checks, and the loop that
\* issues one engine request per row and creates its task.
GenerateAsyncCall ==
    /\ call = NoCall /\ acall = NoCall
    /\ \E data \in AsyncBatches(cfg.pad_token_id), greedy \in BOOLEAN :
       \E ids \in RequestIdAssignments(Len(data.input_ids)) :
          LET b == Len(data.input_ids)
              rowOf == [r \in {ids[i] : i \in 1..b} |->
                            CHOOSE i \in 1..b : ids[i] = r]
              started(outcome, error) ==
                  [op |-> "generate_async", data |-> data, greedy |-> greedy,
                   request_ids |-> ids, outcome |-> outcome, error |-> error]
          IN  IF ~cfg.async_engine
              THEN /\ acall' = started("raised", "RuntimeError")
                   /\ UNCHANGED <<request_id_to_context, task_futures, engine_requests>>
              ELSE IF b = 0
              THEN /\ acall' = started("returned", "")
                   /\ UNCHANGED <<request_id_to_context, task_futures, engine_requests>>
              ELSE IF llm \in {"None", "Unset"}
              THEN \* self.llm.generate on None, or on the method llm of the class
                   /\ acall' = started("raised", "AttributeError")
                   /\ UNCHANGED <<request_id_to_context, task_futures, engine_requests>>
              ELSE /\ acall' = started("running", "")
                   /\ engine_requests' =
                         [i \in 1..b |->
                            [prompt |-> Prompts(data)[i],
                             sampling_params |-> build_sampling_params(cfg, greedy),
                             request_id |-> ids[i]]]
                   /\ request_id_to_context' =
                         [r \in DOMAIN rowOf |-> ContextOf(data, rowOf[r])]
                   /\ task_futures' = [r \in DOMAIN rowOf |-> "pending"]
    /\ UNCHANGED <<yielded, call>>
    /\ UNCHANGED <<planVars, samplingVars, workerVars, sysVars>>

Running(r) ==
    /\ acall.outcome = "running"
    /\ r \in DOMAIN task_futures
    /\ task_futures[r] = "pending"

\* A loop that does not end after the last task.
AfterTaskNeverEnds(r) == acall

\* the loop ends when the last task has been handled
AfterTask(r) ==
    IF \A q \in DOMAIN task_futures : q = r \/ task_futures[q] # "pending"
    THEN [acall EXCEPT !.outcome = "returned"]
    ELSE acall

RowOfRequest(r) == CHOOSE i \in DOMAIN acall.request_ids : acall.request_ids[i] = r

\* The task of request r completes with the engine's final output of n generated
\* tokens; the loop builds the single-row batch and yields it.
TaskCompletes ==
    \E r \in DOMAIN task_futures, n \in 0..MaxGen :
        /\ Running(r)
        /\ LET output == EngineOutput(cfg.pad_token_id, "distinct", TRUE,
                                      RowOfRequest(r), n)
               request_id_from_output == r
               context == request_id_to_context[request_id_from_output]
           IN  yielded' = Append(yielded,
                                 [request_id |-> r, output |-> output,
                                  batch |-> AsyncRowResult(cfg.pad_token_id,
                                                           context, output)])
        /\ task_futures' = [task_futures EXCEPT ![r] = "yielded"]
        /\ acall' = AfterTask(r)
        /\ UNCHANGED <<request_id_to_context, engine_requests, call>>
        /\ UNCHANGED <<planVars, samplingVars, workerVars, sysVars>>

\* The task of request r raises: the loop prints the error and continues.
TaskRaises ==
    \E r \in DOMAIN task_futures :
        /\ Running(r)
        /\ task_futures' = [task_futures EXCEPT ![r] = "failed"]
        /\ acall' = AfterTask(r)
        /\ UNCHANGED <<request_id_to_context, engine_requests, call, yielded>>
        /\ UNCHANGED <<planVars, samplingVars, workerVars, sysVars>>

\* The engine's generator of request r ends without an output: the task returns None
\* and the loop's read of its request_id raises AttributeError out of generate_async.
TaskReturnsNone ==
    \E r \in DOMAIN task_futures :
        /\ Running(r)
        /\ task_futures' = [task_futures EXCEPT ![r] = "none"]
        /\ acall' = [acall EXCEPT !.outcome = "raised", !.error = "AttributeError"]
        /\ UNCHANGED <<request_id_to_context, engine_requests, call, yielded>>
        /\ UNCHANGED <<planVars, samplingVars, workerVars, sysVars>>

\* VllmGenerationWorker.shutdown(), on a worker that served no generation call: a
\* first time, and again after a shutdown.  eng says whether stopping the background
\* loop raises.
ShutdownCall ==
    /\ acall = NoCall /\ call.op \in {"none", "shutdown"}
    /\ \E eng \in {"ok", "raises_first"} :
          LET r == shutdown(cfg, llm, eng)
          IN  /\ call' = [op |-> "shutdown", before |-> llm, eng |-> eng,
                          outcome |-> r.outcome, error |-> r.error,
                          result |-> r.value]
              /\ llm' = r.llm
              /\ engine_requests' = r.engine
    /\ UNCHANGED cfg
    /\ UNCHANGED <<planVars, samplingVars, asyncVars, sysVars>>

Next ==
    \/ Generate \/ GenerateAsyncCall \/ TaskCompletes \/ TaskRaises \/ TaskReturnsNone
    \/ ShutdownCall

Spec == Init /\ [][Next]_vars

\* generate_async alone, with an engine and an event loop that keep going: as long as
\* a task of a running call is pending, some pending task eventually ends (with an
\* output, by raising, or without an output) and asyncio.as_completed hands it to
\* the loop.  Nothing is assumed about which task ends, nor about how.
NextAsync == GenerateAsyncCall \/ TaskCompletes \/ TaskRaises \/ TaskReturnsNone

SpecAsyncFair ==
    Init /\ [][NextAsync]_vars /\ WF_vars(TaskCompletes \/ TaskRaises \/ TaskReturnsNone)

(***************************************************************************)
(* SpecSys: the orchestrator (VllmGeneration) and the workers of its       *)
(* worker group.  Ranks, tied groups and tensor-parallel indices are       *)
(* 1-based here and 0-based in the source.                                 *)
(***************************************************************************)
\* ---- the entry points of a worker, as operators ----
\* What the engine does with the calls a handler makes on it: it serves them all, or
\* it raises in the first, or in the second of them.
EngineBehaviours == {"ok", "raises_first", "raises_second"}
\* the behaviours that differ for a handler that makes the engine calls `wanted`
BehavioursFor(wanted) ==
    IF Len(wanted) > 1 THEN EngineBehaviours ELSE {"ok", "raises_first"}
EngineRaises(wanted, eng) ==
    eng = "raises_first" \/ (eng = "raises_second" /\ Len(wanted) > 1)

\* the common shape of sleep, wake_up, report_device_id and their async counterparts:
\* the assertion on self.llm, the check of the engine flavor, the engine calls
EngineEntry(selfllm, wrong_flavor, wanted, eng, value) ==
    IF selfllm = "None" THEN WorkerRaised("AssertionError", <<>>, selfllm)
    ELSE IF wrong_flavor THEN WorkerRaised("RuntimeError", <<>>, selfllm)
    ELSE IF EngineRaises(wanted, eng)
    THEN WorkerRaised("EngineError",
                      IF eng = "raises_first" THEN SubSeq(wanted, 1, 1) ELSE wanted,
                      selfllm)
    ELSE WorkerReturned(value, wanted, selfllm)

\* A sleep that releases the memory before it resets the prefix cache.
sleep_releasing_first(selfcfg, selfllm, eng) ==
    EngineEntry(selfllm, selfcfg.async_engine, <<"sleep", "reset_prefix_cache">>,
                eng, None)

sleep(selfcfg, selfllm, eng) ==
    EngineEntry(selfllm, selfcfg.async_engine, <<"reset_prefix_cache", "sleep">>,
                eng, None)

sleep_async(selfcfg, selfllm, eng) ==
    EngineEntry(selfllm, ~selfcfg.async_engine, <<"reset_prefix_cache", "sleep">>,
                eng, None)

\* wake_up and wake_up_async, called without tags
wake_up(selfcfg, selfllm, eng) ==
    EngineEntry(selfllm, selfcfg.async_engine, <<"wake_up">>, eng, None)

wake_up_async(selfcfg, selfllm, eng) ==
    EngineEntry(selfllm, ~selfcfg.async_engine, <<"wake_up">>, eng, None)

\* ids: what the engine's workers report, one device id per tensor-parallel rank
report_device_id(selfcfg, selfllm, ids, eng) ==
    EngineEntry(selfllm, selfcfg.async_engine, <<"report_device_id">>, eng, <<ids>>)

report_device_id_async(selfcfg, selfllm, ids, eng) ==
    EngineEntry(selfllm, ~selfcfg.async_engine, <<"report_device_id">>, eng, <<ids>>)

\* What collective_rpc("update_weights_from_ipc_handles") answers: it raises, or it
\* returns one result per engine worker: all succeeded, all but the first, or only
\* the first.
RpcAnswers(tp) ==
    {[raises |-> TRUE, results |-> <<>>]} \cup
    {[raises |-> FALSE, results |-> rs] :
        rs \in {[t \in 1..tp |-> TRUE], [t \in 1..tp |-> t # 1], [t \in 1..tp |-> t = 1]}}

\* the body of update_weights_from_ipc_handles(_async): every exception, the failed
\* assertion and the flavor error included, is caught and reported as False
UpdateEntry(selfllm, wrong_flavor, rpc) ==
    IF selfllm = "None" \/ wrong_flavor
    THEN WorkerReturned(<<FALSE>>, <<>>, selfllm)
    ELSE IF rpc.raises \/ rpc.results = <<>>
    THEN WorkerReturned(<<FALSE>>, <<"update_weights_from_ipc_handles">>, selfllm)
    ELSE LET worker_result == rpc.results[1]
         IN  WorkerReturned(<<worker_result>>, <<"update_weights_from_ipc_handles">>,
                            selfllm)

update_weights_from_ipc_handles(selfcfg, selfllm, ipc_handles, rpc) ==
    UpdateEntry(selfllm, selfcfg.async_engine, rpc)

update_weights_from_ipc_handles_async(selfcfg, selfllm, ipc_handles, rpc) ==
    UpdateEntry(selfllm, ~selfcfg.async_engine, rpc)

RECURSIVE AsCompleted(_, _, _, _)
\* the loop of generate_async over asyncio.as_completed: tasks holds, in completion
\* order, how the task of every request ended
AsCompleted(pad_token_id, data, tasks, p) ==
    IF p > Len(tasks) THEN [outcome |-> "returned", error |-> "", yielded |-> <<>>]
    ELSE IF tasks[p].kind = "none"
    THEN [outcome |-> "raised", error |-> "AttributeError", yielded |-> <<>>]
    ELSE LET rest == AsCompleted(pad_token_id, data, tasks, p + 1)
         IN  IF tasks[p].kind = "raises" THEN rest
             ELSE [rest EXCEPT !.yielded =
                      << AsyncRowResult(pad_token_id, ContextOf(data, tasks[p].row),
                                        tasks[p].output) >> \o @]

\* A generate_async without the check of the engine flavor.
generate_async_unchecked(selfcfg, selfllm, data, greedy, tasks) ==
    LET r == AsCompleted(selfcfg.pad_token_id, data, tasks, 1)
    IN  [outcome |-> r.outcome, error |-> r.error,
         requests |-> [i \in DOMAIN data.input_ids |-> [request_id |-> i]],
         yielded |-> r.yielded]

\* generate_async(data, greedy) from its call to the end of the generator
generate_async(selfcfg, selfllm, data, greedy, tasks) ==
    IF ~selfcfg.async_engine
    THEN [outcome |-> "raised", error |-> "RuntimeError", requests |-> <<>>,
          yielded |-> <<>>]
    ELSE IF Len(data.input_ids) = 0
    THEN [outcome |-> "returned", error |-> "", requests |-> <<>>, yielded |-> <<>>]
    ELSE IF selfllm \in {"None", "Unset"}
    THEN [outcome |-> "raised", error |-> "AttributeError", requests |-> <<>>,
          yielded |-> <<>>]
    ELSE LET r == AsCompleted(selfcfg.pad_token_id, data, tasks, 1)
         IN  [outcome |-> r.outcome, error |-> r.error,
              requests |-> [i \in DOMAIN data.input_ids |->
                              [prompt |-> Prompts(data)[i],
                               sampling_params |-> build_sampling_params(selfcfg, greedy),
                               request_id |-> i]],
              yielded |-> r.yielded]

\* ---- the collaborators of the orchestrator ----
Min(a, b) == IF a <= b THEN a ELSE b

\* The id of the device of tensor-parallel rank t of tied group g, and the
\* handle a trainer holds for the device id u.
DeviceId(g, t) == 10 * g + t
HandleOf(u) == 1000 + u

\* BatchedDataDict.shard_by_batch_size(shards, allow_uneven_shards=...) on a batch
\* of b rows: the rows of every shard, in order.  Shards are consecutive chunks of
\* ceil(b / shards) rows; a batch that does not divide evenly is refused unless uneven
\* shards are allowed.
shard_by_batch_size(b, shards, allow_uneven_shards) ==
    IF ~allow_uneven_shards /\ b % shards # 0
    THEN [outcome |-> "raised", rows |-> <<>>]
    ELSE LET size == (b + shards - 1) \div shards
         IN  [outcome |-> "returned",
              rows |-> [g \in 1..shards |->
                          Range(Min((g - 1) * size, b) + 1, Min(g * size, b) + 1)]]

\* the rows of a batch (of a prompt list) that make a shard
SliceBatch(data, rows) ==
    [input_ids     |-> [j \in DOMAIN rows |-> data.input_ids[rows[j]]],
     input_lengths |-> [j \in DOMAIN rows |-> data.input_lengths[rows[j]]]]
SlicePrompts(data, rows) == [prompts |-> [j \in DOMAIN rows |-> data.prompts[rows[j]]]]

\* RayWorkerGroup.run_all_workers_*(method_name, data, run on tensor-parallel rank 0
\* only): one remote call per tied group, to its tensor-parallel rank 0, the call of
\* group g carrying data[g]; a group without workers gets no call.
RunOnRankZero(selfworkers, selflayout, method_name, data) ==
    IF selfworkers = <<>> THEN <<>>
    ELSE [g \in DOMAIN selflayout |->
            [worker |-> selflayout[g][1], method |-> method_name, data |-> data[g]]]

\* RayWorkerGroup.shutdown(cleanup_method="shutdown"): calls the cleanup method of
\* every worker, ends the workers and forgets them; a group already shut down has
\* nothing to do.  Both report success.
worker_group_shutdown(selfworkers) ==
    [value |-> <<TRUE>>,
     dispatched |-> [w \in DOMAIN selfworkers |->
                        [worker |-> w, method |-> "shutdown", data |-> None]],
     workers |-> <<>>]

RECURSIVE Flatten(_, _)
Flatten(seqs, p) == IF p > Len(seqs) THEN <<>> ELSE seqs[p] \o Flatten(seqs, p + 1)

MaxLen(rows) ==
    IF rows = <<>> THEN 0
    ELSE LET lens == {Len(rows[i]) : i \in DOMAIN rows}
         IN  CHOOSE m \in lens : \A n \in lens : n <= m

PadRow(row, width, pad_value) ==
    [p \in 1..width |-> IF p <= Len(row) THEN row[p] ELSE pad_value]

\* BatchedDataDict.from_batches(results, pad_value_dict={"output_ids": pad}): the
\* batches one after the other, in the order of the list, every row of a tensor padded
\* to the longest row of that field
from_batches(results, pad_token_id) ==
    [k \in DOMAIN results[1] |->
        LET rows == Flatten([g \in DOMAIN results |-> results[g][k]], 1)
        IN  IF k \in {"output_ids", "logprobs"}     \* the tensors of rows
            THEN [i \in DOMAIN rows |->
                    PadRow(rows[i], MaxLen(rows),
                           IF k = "output_ids" THEN pad_token_id ELSE 0)]
            ELSE rows]

\* What a remote call makes of a worker: the entry point named by the call, served
\* on the worker's state.  nd says what the engine does in the call.
NoRpc == [raises |-> TRUE, results |-> <<>>]
Serve(selfcfg, selfllm, method_name, data, nd) ==
    CASE method_name = "sleep"         -> sleep(selfcfg, selfllm, nd.eng)
      [] method_name = "sleep_async"   -> sleep_async(selfcfg, selfllm, nd.eng)
      [] method_name = "wake_up"       -> wake_up(selfcfg, selfllm, nd.eng)
      [] method_name = "wake_up_async" -> wake_up_async(selfcfg, selfllm, nd.eng)
      [] method_name = "report_device_id" ->
            report_device_id(selfcfg, selfllm, nd.ids, nd.eng)
      [] method_name = "report_device_id_async" ->
            report_device_id_async(selfcfg, selfllm, nd.ids, nd.eng)
      [] method_name = "update_weights_from_ipc_handles" ->
            update_weights_from_ipc_handles(selfcfg, selfllm, data, nd.rpc)
      [] method_name = "update_weights_from_ipc_handles_async" ->
            update_weights_from_ipc_handles_async(selfcfg, selfllm, data, nd.rpc)
      [] method_name = "shutdown"      -> shutdown(selfcfg, selfllm, nd.eng)

\* ray.get(futures): the values the calls returned, in the order of the futures; it
\* raises when a call raised or (ray_ok false) when a worker could not be reached
ray_get(selfcfg, selfworkers, futs, nd, ray_ok) ==
    LET r == [g \in DOMAIN futs |->
                Serve(selfcfg, selfworkers[futs[g].worker], futs[g].method,
                      futs[g].data, nd[g])]
    IN  [raised |-> ~ray_ok \/ \E g \in DOMAIN futs : r[g].outcome = "raised",
         values |-> [g \in DOMAIN futs |-> r[g].value]]

\* ---- the operations of the orchestrator ----
\* The outcome of an operation of the orchestrator: the value returned (<<x>>) or the
\* error raised, and the remote calls it dispatched.
OrchReturned(value, dispatched) ==
    [outcome |-> "returned", error |-> "", missing |-> {}, value |-> value,
     dispatched |-> dispatched]
OrchRaised(error, missing, dispatched) ==
    [outcome |-> "raised", error |-> error, missing |-> missing, value |-> None,
     dispatched |-> dispatched]

\* A reduction that counts the None of a call without a result as a failure.
all_results_none_fails(results) ==
    \A i \in DOMAIN results : results[i] # None /\ results[i][1]

\* all(result for result in results if result is not None)
all_results(results) ==
    \A i \in DOMAIN results : results[i] # None => results[i][1]

prepare_for_generation(selfcfg, selfworkers, selflayout, nd, ray_ok) ==
    LET method_name == IF selfcfg.async_engine THEN "wake_up_async" ELSE "wake_up"
        futs == RunOnRankZero(selfworkers, selflayout, method_name,
                              [g \in DOMAIN selflayout |-> None])
        results == ray_get(selfcfg, selfworkers, futs, nd, ray_ok)
    IN  IF results.raised THEN OrchReturned(<<FALSE>>, futs)
        ELSE OrchReturned(<<all_results(results.values)>>, futs)

finish_generation(selfcfg, selfworkers, selflayout, nd, ray_ok) ==
    LET method_name == IF selfcfg.async_engine THEN "sleep_async" ELSE "sleep"
        futs == RunOnRankZero(selfworkers, selflayout, method_name,
                              [g \in DOMAIN selflayout |-> None])
        results == ray_get(selfcfg, selfworkers, futs, nd, ray_ok)
    IN  IF results.raised THEN OrchReturned(<<FALSE>>, futs)
        ELSE OrchReturned(<<all_results(results.values)>>, futs)

\* the device ids of tied group g in self.device_uuids
IdsOf(selfdevice_uuids, g) ==
    {selfdevice_uuids[g][t] : t \in DOMAIN selfdevice_uuids[g]}

\* A list of handle maps that leaves out the ids the caller gave no handle for.
ipc_handles_list_skipping_missing(selfdevice_uuids, ipc_handles) ==
    [raised |-> FALSE,
     value |-> [g \in DOMAIN selfdevice_uuids |->
                  [u \in IdsOf(selfdevice_uuids, g) \cap DOMAIN ipc_handles |->
                      ipc_handles[u]]]]

\* A list of handle maps that gives every group the handles of all devices.
ipc_handles_list_unfiltered(selfdevice_uuids, ipc_handles) ==
    IF \E g \in DOMAIN selfdevice_uuids :
          ~(IdsOf(selfdevice_uuids, g) \subseteq DOMAIN ipc_handles)
    THEN [raised |-> TRUE, value |-> <<>>]
    ELSE [raised |-> FALSE,
          value |-> [g \in DOMAIN selfdevice_uuids |-> ipc_handles]]

\* the loop of update_weights that builds ipc_handles_list: ipc_handles[device_uuid]
\* raises KeyError for an id the caller gave no handle for
ipc_handles_list(selfdevice_uuids, ipc_handles) ==
    IF \E g \in DOMAIN selfdevice_uuids :
          ~(IdsOf(selfdevice_uuids, g) \subseteq DOMAIN ipc_handles)
    THEN [raised |-> TRUE, value |-> <<>>]
    ELSE [raised |-> FALSE,
          value |-> [g \in DOMAIN selfdevice_uuids |->
                       [u \in IdsOf(selfdevice_uuids, g) |-> ipc_handles[u]]]]

\* An update_weights that returns as soon as one call succeeded.
update_weights_any(selfcfg, selfworkers, selflayout, selfdevice_uuids, ipc_handles, nd, ray_ok) ==
    LET method_name == IF selfcfg.async_engine
                       THEN "update_weights_from_ipc_handles_async"
                       ELSE "update_weights_from_ipc_handles"
        handles == ipc_handles_list(selfdevice_uuids, ipc_handles)
        futs == RunOnRankZero(selfworkers, selflayout, method_name, handles.value)
        results == ray_get(selfcfg, selfworkers, futs, nd, ray_ok)
    IN  IF selfworkers = <<>> THEN OrchReturned(<<FALSE>>, <<>>)
        ELSE IF handles.raised THEN OrchRaised("KeyError", {}, <<>>)
        ELSE IF results.raised THEN OrchReturned(<<FALSE>>, futs)
        ELSE OrchReturned(<< \E g \in DOMAIN futs : results.values[g] = <<TRUE>> >>,
                          futs)

update_weights(selfcfg, selfworkers, selflayout, selfdevice_uuids, ipc_handles, nd, ray_ok) ==
    LET method_name == IF selfcfg.async_engine
                       THEN "update_weights_from_ipc_handles_async"
                       ELSE "update_weights_from_ipc_handles"
        handles == ipc_handles_list(selfdevice_uuids, ipc_handles)
        futs == RunOnRankZero(selfworkers, selflayout, method_name, handles.value)
        results == ray_get(selfcfg, selfworkers, futs, nd, ray_ok)
    IN  IF selfworkers = <<>> THEN OrchReturned(<<FALSE>>, <<>>)
        ELSE IF handles.raised THEN OrchRaised("KeyError", {}, <<>>)
        ELSE IF results.raised THEN OrchReturned(<<FALSE>>, futs)
        ELSE OrchReturned(<<all_results(results.values)>>, futs)

\* VllmGeneration.shutdown
VllmGeneration_shutdown(selfworkers) ==
    LET r == worker_group_shutdown(selfworkers)
    IN  OrchReturned(r.value, r.dispatched)

\* A sharding for generate that hands the shards to the tied groups in reverse order.
generate_sharded_data_reversed(b, dp_size) ==
    LET s == shard_by_batch_size(b, dp_size, TRUE)
    IN  [s EXCEPT !.rows = [g \in 1..dp_size |-> s.rows[dp_size + 1 - g]]]

\* sharded_data of generate, of generate_async and of generate_text, for b rows
generate_sharded_data(b, dp_size) == shard_by_batch_size(b, dp_size, TRUE)
generate_async_sharded_data(b, dp_size) == shard_by_batch_size(b, dp_size, TRUE)
generate_text_sharded_data(b, dp_size) == shard_by_batch_size(b, dp_size, FALSE)

\* A dispatch that calls every worker of every tied group with the shard of its group.
generate_future_bundle_all_ranks(selfworkers, selflayout, method_name, sharded_data) ==
    [w \in DOMAIN selfworkers |->
        [worker |-> w, method |-> method_name,
         data |-> sharded_data[((w - 1) \div Len(selflayout[1])) + 1]]]

\* future_bundle of generate, generate_text and generate_async: the shards go to the
\* worker group along the data-parallel axis, replicated on no axis
generate_future_bundle(selfworkers, selflayout, method_name, sharded_data) ==
    RunOnRankZero(selfworkers, selflayout, method_name, sharded_data)

\* A check of the required keys that finds nothing missing.
missing_keys_unchecked(required_keys, combined) == {}

missing_keys(required_keys, combined) ==
    {key \in required_keys : key \notin DOMAIN combined}

\* RayWorkerGroup.get_all_worker_results(future_bundle): one result per tied group,
\* in the order of the groups, whatever the order the calls completed in
get_all_worker_results(future_bundle) ==
    [raised |-> \E g \in DOMAIN future_bundle : future_bundle[g].outcome = "raised",
     values |-> [g \in DOMAIN future_bundle |-> future_bundle[g].result]]

\* the end of generate, generate_text and generate_async: the results are combined
\* and the combined batch is checked for the required keys
CombineResults(selfcfg, required_keys, gathered, dispatched) ==
    IF gathered.raised THEN OrchRaised("RayTaskError", {}, dispatched)
    ELSE LET combined == from_batches(gathered.values, selfcfg.pad_token_id)
         IN  IF missing_keys(required_keys, combined) # {}
             THEN OrchRaised("ValueError", missing_keys(required_keys, combined),
                             dispatched)
             ELSE OrchReturned(<<combined>>, dispatched)

\* ---- the inputs of SpecSys ----
EngineOf(selfcfg) == IF selfcfg.async_engine THEN "AsyncLLMEngine" ELSE "LLM"

\* the batch of b rows given to the orchestrator: width 2, all tokens different
OrchBatch(pad_token_id, b) ==
    BatchOf(pad_token_id, b, 2, [i \in 1..b |-> 1 + (i % 2)], "distinct")
OrchPrompts(b) == [prompts |-> [i \in 1..b |-> i]]

\* the batches of a call made directly on one worker
ProbeBatches(pad_token_id) == {OrchBatch(pad_token_id, b) : b \in 0..1}

\* how the tasks of a generate_async over b <= 1 rows can end
ProbeTasks(pad_token_id, b) ==
    IF b = 0 THEN {<<>>}
    ELSE {<< [row |-> 1, kind |-> "output",
              output |-> EngineOutput(pad_token_id, "distinct", TRUE, 1, 1)] >>,
          << [row |-> 1, kind |-> "raises", output |-> None] >>,
          << [row |-> 1, kind |-> "none", output |-> None] >>}

\* the handle maps a caller may give: handles for all the devices, with or without
\* one for a device (99) that belongs to no worker, for all devices but one, for none
HandleMaps(selfdevice_uuids) ==
    LET ids == UNION {IdsOf(selfdevice_uuids, g) : g \in DOMAIN selfdevice_uuids}
        sets == {ids, ids \cup {99}, {}} \cup {ids \ {u} : u \in ids}
    IN  {[u \in S |-> HandleOf(u)] : S \in sets}

\* The record of a call: target is 0 for a call on the orchestrator and the rank for a
\* call on a worker; env is what the workers and the remote calls were chosen to do.
SysCallOfOrch(op, arg, env, r) ==
    [op |-> op, target |-> 0, arg |-> arg, env |-> env, outcome |-> r.outcome, error |-> r.error,
     missing |-> r.missing, value |-> r.value, dispatched |-> r.dispatched,
     engine |-> <<>>, order |-> <<>>]

SysCallOfWorker(op, w, arg, r) ==
    [op |-> op, target |-> w, arg |-> arg, env |-> None, outcome |-> r.outcome, error |-> r.error,
     missing |-> {}, value |-> r.value, dispatched |-> <<>>,
     engine |-> r.engine, order |-> <<>>]

\* the tied group of rank w
GroupOf(w) == ((w - 1) \div Len(layout[1])) + 1

\* ---- SpecSys ----
\* The state after VllmGeneration.__init__: every worker of the group was built with
\* the orchestrator's configuration, the tensor-parallel rank 0 of every tied group
\* owns an engine of the configured flavor, and self.device_uuids holds what
\* _report_device_id collected, one list per tied group.
InitSys ==
    /\ cfg \in {SyncCfg, AsyncCfg}
    /\ \E dp \in 1..MaxDP, tp \in {1, 2} :
          /\ layout = LayoutOf(dp, tp)
          /\ workers = [r \in 1..(dp * tp) |->
                          VllmGenerationWorker_init(
                              cfg, IF (r - 1) % tp = 0 THEN Range(0, tp) ELSE None, TRUE)]
          /\ device_uuids = [g \in 1..dp |-> [t \in 1..tp |-> DeviceId(g, t)]]
    /\ ocall = NoCall
    /\ futures = <<>>
    /\ llm = "None"
    /\ GenIdle /\ AsyncIdle /\ PlanIdle /\ SamplingIdle

SysOthersUnchanged ==
    UNCHANGED <<planVars, samplingVars, workerVars, genVars, asyncVars>>

\* A lifecycle entry point is called directly on worker w.
WorkerLifecycleCall ==
    /\ workers # <<>> /\ futures = <<>>
    /\ \E w \in DOMAIN workers,
          m \in {"sleep", "sleep_async", "wake_up", "wake_up_async",
                 "report_device_id", "report_device_id_async"} :
       \E eng \in BehavioursFor(IF m \in {"sleep", "sleep_async"}
                                THEN <<"reset_prefix_cache", "sleep">> ELSE <<m>>) :
          LET r == Serve(cfg, workers[w], m, None,
                         [eng |-> eng, rpc |-> NoRpc, ids |-> device_uuids[GroupOf(w)]])
          IN  ocall' = [SysCallOfWorker(m, w, None, r) EXCEPT !.env = [eng |-> eng]]
    /\ UNCHANGED <<layout, workers, device_uuids, futures>>
    /\ SysOthersUnchanged

\* shutdown is called directly on worker w.
WorkerShutdown ==
    /\ workers # <<>> /\ futures = <<>>
    /\ \E w \in DOMAIN workers, eng \in BehavioursFor(<<"shutdown_background_loop">>) :
          LET r == shutdown(cfg, workers[w], eng)
          IN  /\ ocall' = SysCallOfWorker("shutdown", w, None, r)
              /\ workers' = [workers EXCEPT ![w] = r.llm]
    /\ UNCHANGED <<layout, device_uuids, futures>>
    /\ SysOthersUnchanged

\* A weight update is called directly on worker w, with the handles of its group.
WorkerUpdateCall ==
    /\ workers # <<>> /\ futures = <<>>
    /\ \E w \in DOMAIN workers, rpc \in RpcAnswers(Len(layout[1])) :
       \E m \in {"update_weights_from_ipc_handles",
                 "update_weights_from_ipc_handles_async"} :
          LET ids == IdsOf(device_uuids, GroupOf(w))
              handles == [u \in ids |-> HandleOf(u)]
              r == Serve(cfg, workers[w], m, handles,
                         [eng |-> "ok", rpc |-> rpc, ids |-> <<>>])
          IN  ocall' = [SysCallOfWorker(m, w, handles, r) EXCEPT !.env = [rpc |-> rpc]]
    /\ UNCHANGED <<layout, workers, device_uuids, futures>>
    /\ SysOthersUnchanged

\* generate, generate_text or generate_async is called directly on worker w.
WorkerGenerateCall ==
    /\ workers # <<>> /\ futures = <<>>
    /\ \E w \in DOMAIN workers, data \in ProbeBatches(cfg.pad_token_id) :
          LET b == Len(data.input_ids)
              greedy == FALSE
              outputs == [i \in 1..b |->
                            EngineOutput(cfg.pad_token_id, "distinct", TRUE, i, 1)]
              g == generate(cfg, workers[w], data, greedy, outputs)
              t == generate_text(cfg, workers[w], OrchPrompts(b), greedy,
                                 [i \in 1..b |-> "x"])
              served(r, value, engine) ==
                  [outcome |-> r.outcome, error |-> r.error,
                   value |-> IF r.outcome = "returned" THEN value ELSE None,
                   engine |-> engine]
          IN  \/ ocall' = SysCallOfWorker("generate", w, data,
                                          served(g, <<g.result>>, g.requests))
              \/ ocall' = SysCallOfWorker("generate_text", w, OrchPrompts(b),
                                          served(t, <<t.result>>, t.requests))
              \/ \E tasks \in ProbeTasks(cfg.pad_token_id, b) :
                    LET a == generate_async(cfg, workers[w], data, greedy, tasks)
                    IN  ocall' = SysCallOfWorker("generate_async", w, data,
                                    [outcome |-> a.outcome, error |-> a.error,
                                     value |-> a.yielded, engine |-> a.requests])
    /\ UNCHANGED <<layout, workers, device_uuids, futures>>
    /\ SysOthersUnchanged

\* What the engines of the owners and the remote calls do during a fan-out: when a
\* worker cannot be reached, or there is no worker, what the engines would do is
\* immaterial.
QuietNd(selflayout) ==
    [g \in DOMAIN selflayout |-> [eng |-> "ok", rpc |-> NoRpc, ids |-> <<>>]]

Envs(selfworkers, selflayout, nds) ==
    {[nd |-> QuietNd(selflayout), ray_ok |-> FALSE]} \cup
    {[nd |-> nd, ray_ok |-> TRUE] :
        nd \in IF selfworkers = <<>> THEN {QuietNd(selflayout)} ELSE nds}

LifecycleNd(selflayout, wanted) ==
    [DOMAIN selflayout ->
        {[eng |-> e, rpc |-> NoRpc, ids |-> <<>>] : e \in BehavioursFor(wanted)}]

PrepareForGeneration ==
    /\ futures = <<>>
    /\ \E env \in Envs(workers, layout, LifecycleNd(layout, <<"wake_up">>)) :
          ocall' = SysCallOfOrch("prepare_for_generation", None, env,
                       prepare_for_generation(cfg, workers, layout, env.nd, env.ray_ok))
    /\ UNCHANGED <<layout, workers, device_uuids, futures>>
    /\ SysOthersUnchanged

FinishGeneration ==
    /\ futures = <<>>
    /\ \E env \in Envs(workers, layout,
                        LifecycleNd(layout, <<"reset_prefix_cache", "sleep">>)) :
          ocall' = SysCallOfOrch("finish_generation", None, env,
                       finish_generation(cfg, workers, layout, env.nd, env.ray_ok))
    /\ UNCHANGED <<layout, workers, device_uuids, futures>>
    /\ SysOthersUnchanged

UpdateNd(selflayout) ==
    [DOMAIN selflayout ->
        {[eng |-> "ok", rpc |-> rpc, ids |-> <<>>] : rpc \in RpcAnswers(Len(selflayout[1]))}]

\* VllmGeneration.update_weights(ipc_handles).  What the workers answer matters only
\* when calls are dispatched.
UpdateWeights ==
    /\ futures = <<>>
    /\ \E ipc_handles \in HandleMaps(device_uuids) :
       \E env \in IF ipc_handles_list(device_uuids, ipc_handles).raised
                   THEN {[nd |-> QuietNd(layout), ray_ok |-> TRUE]}
                   ELSE Envs(workers, layout, UpdateNd(layout)) :
          ocall' = SysCallOfOrch("update_weights", ipc_handles, env,
                       update_weights(cfg, workers, layout, device_uuids,
                                      ipc_handles, env.nd, env.ray_ok))
    /\ UNCHANGED <<layout, workers, device_uuids, futures>>
    /\ SysOthersUnchanged

\* VllmGeneration.shutdown()
Shutdown ==
    /\ futures = <<>>
    /\ ocall' = SysCallOfOrch("shutdown", None, None, VllmGeneration_shutdown(workers))
    /\ workers' = worker_group_shutdown(workers).workers
    /\ UNCHANGED <<layout, device_uuids, futures>>
    /\ SysOthersUnchanged

\* VllmGeneration.generate(data, greedy) up to the dispatch of the shards.  generate
\* reads the configuration and the engine handles of the workers and writes nothing:
\* the model follows it from the constructed system and from every state a shutdown
\* of one worker leaves.
OrchGenerateDispatch ==
    /\ workers # <<>> /\ futures = <<>>
    /\ ocall = NoCall \/ ocall.op = "shutdown"
    /\ \E b \in 0..MaxRows, greedy \in BOOLEAN :
          LET data == OrchBatch(cfg.pad_token_id, b)
              dp_size == Len(layout)
              sharded_data == generate_sharded_data(b, dp_size)
              future_bundle ==
                  generate_future_bundle(workers, layout, "generate", sharded_data.rows)
          IN  /\ ocall' = [SysCallOfOrch("generate", [data |-> data, greedy |-> greedy],
                                         None, OrchReturned(None, future_bundle))
                              EXCEPT !.outcome = "dispatched"]
              /\ futures' = [g \in DOMAIN future_bundle |-> [outcome |-> "pending"]]
    /\ UNCHANGED <<layout, workers, device_uuids>>
    /\ SysOthersUnchanged

\* The owner of tied group g serves the generate dispatched to it; the engine
\* generates nothing, or the most allowed, for each row of the shard.
GroupCompletes ==
    \E g \in DOMAIN futures :
        /\ futures[g].outcome = "pending"
        /\ LET d == ocall.dispatched[g]
               shard == SliceBatch(ocall.arg.data, d.data)
           IN  \E gl \in [DOMAIN d.data -> {0, MaxGen}] :
                  LET outputs == [j \in DOMAIN d.data |->
                                    EngineOutput(cfg.pad_token_id, "distinct", TRUE,
                                                 j, gl[j])]
                      r == generate(cfg, workers[d.worker], shard, ocall.arg.greedy,
                                    outputs)
                  IN  futures' = [futures EXCEPT ![g] =
                                     [outcome |-> r.outcome, result |-> r.result]]
        /\ ocall' = [ocall EXCEPT !.order = Append(@, g)]
        /\ UNCHANGED <<layout, workers, device_uuids>>
        /\ SysOthersUnchanged

\* Every dispatched call is over: generate collects the results, combines them and
\* checks the combined batch.
OrchGenerateGather ==
    /\ futures # <<>>
    /\ \A g \in DOMAIN futures : futures[g].outcome # "pending"
    /\ LET results == get_all_worker_results(futures)
           required_keys == {"output_ids", "generation_lengths",
                             "unpadded_sequence_lengths", "logprobs"}
           r == CombineResults(cfg, required_keys, results, ocall.dispatched)
       IN  ocall' = [SysCallOfOrch("generate", ocall.arg, None, r) EXCEPT !.order = ocall.order]
    /\ futures' = <<>>
    /\ UNCHANGED <<layout, workers, device_uuids>>
    /\ SysOthersUnchanged

\* VllmGeneration.generate_text(data, greedy=False), for a batch of at least one
\* prompt
OrchGenerateText ==
    /\ workers # <<>> /\ futures = <<>>
    /\ \E b \in 1..MaxRows :
          LET data == OrchPrompts(b)
              greedy == FALSE
              batch_size == Len(data.prompts)
              dp_size == Len(layout)
              sharded_data == generate_text_sharded_data(batch_size, dp_size)
              future_bundle ==
                  generate_future_bundle(workers, layout, "generate_text", sharded_data.rows)
              served == [g \in DOMAIN future_bundle |->
                           generate_text(cfg, workers[future_bundle[g].worker],
                                         SlicePrompts(data, future_bundle[g].data),
                                         greedy,
                                         [j \in DOMAIN future_bundle[g].data |-> "x"])]
              r == IF sharded_data.outcome = "raised"
                   THEN OrchRaised("AssertionError", {}, <<>>)
                   ELSE CombineResults(cfg, {"texts"},
                                       get_all_worker_results(served), future_bundle)
          IN  ocall' = SysCallOfOrch("generate_text",
                                     [data |-> data, greedy |-> greedy], None, r)
    /\ UNCHANGED <<layout, workers, device_uuids, futures>>
    /\ SysOthersUnchanged

\* What the worker group hands back for the generate_async dispatched to a tied group
\* is decided outside this file: an error, a batch with every field of the rows of the
\* shard, or a batch that lacks fields.
AsyncGroupResult(selfcfg, shard, answer) ==
    LET outputs == [j \in DOMAIN shard.input_ids |->
                      EngineOutput(selfcfg.pad_token_id, "distinct", TRUE, j, 1)]
        whole == IF shard.input_ids = <<>> THEN EmptyResult
                 ELSE AssembleResult(selfcfg.pad_token_id, shard, outputs)
    IN  [outcome |-> IF answer = "raises" THEN "raised" ELSE "returned",
         result  |-> IF answer = "complete" THEN whole
                     ELSE [k \in {"output_ids", "generation_lengths"} |-> whole[k]]]

\* VllmGeneration.generate_async(data, greedy=False)
OrchGenerateAsync ==
    /\ workers # <<>> /\ futures = <<>>
    /\ \E b \in 0..MaxRows, answer \in {"raises", "complete", "incomplete"} :
          LET data == OrchBatch(cfg.pad_token_id, b)
              greedy == FALSE
              dp_size == Len(layout)
              sharded_data == generate_async_sharded_data(b, dp_size)
              future_bundle ==
                  generate_future_bundle(workers, layout, "generate_async", sharded_data.rows)
              served == [g \in DOMAIN future_bundle |->
                           AsyncGroupResult(cfg, SliceBatch(data, future_bundle[g].data),
                                            answer)]
              required_keys == {"output_ids", "generation_lengths",
                                "unpadded_sequence_lengths", "logprobs"}
              r == IF ~cfg.async_engine
                   THEN OrchRaised("RuntimeError", {}, <<>>)
                   ELSE CombineResults(cfg, required_keys,
                                       get_all_worker_results(served), future_bundle)
          IN  ocall' = SysCallOfOrch("generate_async",
                                     [data |-> data, greedy |-> greedy],
                                     [answer |-> answer], r)
    /\ UNCHANGED <<layout, workers, device_uuids, futures>>
    /\ SysOthersUnchanged

NextSys ==
    \/ WorkerLifecycleCall \/ WorkerShutdown \/ WorkerUpdateCall \/ WorkerGenerateCall
    \/ PrepareForGeneration \/ FinishGeneration \/ UpdateWeights \/ Shutdown
    \/ OrchGenerateDispatch \/ GroupCompletes \/ OrchGenerateGather
    \/ OrchGenerateText \/ OrchGenerateAsync

SpecSys == InitSys /\ [][NextSys]_vars

(***************************************************************************)
(* Claims about the partitioner and the planner (checked under SpecPlan).  *)
(***************************************************************************)
Partitioned == tied_worker_groups.outcome = "returned"
Groups      == tied_worker_groups.value
GroupNode(i)  == Groups[i][1]
GroupLocal(i) == Groups[i][2]
ElemsOf(seq)  == {seq[i] : i \in DOMAIN seq}

RECURSIVE SumDiv(_, _, _)
SumDiv(counts, t, p) ==
    IF p > Len(counts) THEN 0 ELSE (counts[p] \div t) + SumDiv(counts, t, p + 1)

\* the number of groups of the same node that precede position i of the list
RankInNode(i) == Cardinality({j \in 1..(i - 1) : GroupNode(j) = GroupNode(i)})

\* C1: a returned partition holds only groups of exactly tp_size local bundle indices,
\* it holds sum over nodes of (bundles_on_node // tp_size) groups, and the remainder
\* bundles of a node (local indices >= (bundles_on_node // tp_size) * tp_size) are in
\* no group.
C1_CompleteGroupsOnly ==
    Partitioned =>
        /\ \A i \in DOMAIN Groups : Len(GroupLocal(i)) = tp_size
        /\ Len(Groups) = SumDiv(bundle_counts, tp_size, 1)
        /\ \A i \in DOMAIN Groups :
              /\ GroupNode(i) \in 0..(Len(bundle_counts) - 1)
              /\ \A b \in ElemsOf(GroupLocal(i)) :
                    /\ b >= 0
                    /\ b < (bundle_counts[GroupNode(i) + 1] \div tp_size) * tp_size

C1_Witness ==
    /\ Partitioned
    /\ tp_size = 2
    /\ Len(bundle_counts) = 2
    /\ bundle_counts[1] = 3
    /\ bundle_counts[2] = 4
    /\ Len(Groups) = 3

\* C2: the partitioner raises exactly when no node has tp_size bundles, and what it
\* returns is never the empty list.
C2_RaisesIffNoGroup ==
    tied_worker_groups.outcome # "pending" =>
        /\ (tied_worker_groups.outcome = "raised")
              <=> (\A n \in DOMAIN bundle_counts : bundle_counts[n] < tp_size)
        /\ Partitioned => Groups # <<>>

C2_Witness ==
    /\ tied_worker_groups.outcome = "raised"
    /\ Len(bundle_counts) = 2
    /\ tp_size = 3

\* C3: the k-th group of a node is the consecutive local indices k*T .. k*T+T-1, no
\* local index of a node is in two groups, and the list is ordered by node index and,
\* within a node, by group index.
C3_ConsecutiveDisjointOrdered ==
    Partitioned =>
        /\ \A i \in DOMAIN Groups :
              LET k == RankInNode(i)
              IN  GroupLocal(i) = [x \in 1..tp_size |-> k * tp_size + x - 1]
        /\ \A i, j \in DOMAIN Groups :
              (i # j /\ GroupNode(i) = GroupNode(j))
                 => ElemsOf(GroupLocal(i)) \cap ElemsOf(GroupLocal(j)) = {}
        /\ \A i, j \in DOMAIN Groups :
              i < j => \/ GroupNode(i) < GroupNode(j)
                       \/ /\ GroupNode(i) = GroupNode(j)
                          /\ GroupLocal(i)[1] < GroupLocal(j)[1]

C3_Witness ==
    /\ Partitioned
    /\ tp_size = 2
    /\ bundle_counts = <<4, 2>>
    /\ Groups = << <<0, <<0, 1>>>>, <<0, <<2, 3>>>>, <<1, <<0, 1>>>> >>

PlannedOwner == plan.called /\ plan.bundle_indices # None
PlannedNonOwner == plan.called /\ plan.bundle_indices = None
BypassFlag == "RAY_EXPERIMENTAL_NOSET_CUDA_VISIBLE_DEVICES"

\* C4: the seed planned for a bundle assignment is node_idx * 1024 + its group index
\* on the node, it does not depend on the device share, and among the assignments of
\* the partition it is shared by no other (node, group) pair.
C4_SeedPerGroup ==
    PlannedOwner =>
        LET seed == plan.result.init_kwargs["seed"]
        IN  /\ \A i \in DOMAIN Groups :
                  Groups[i] = plan.bundle_indices
                     => seed = GroupNode(i) * 1024 + RankInNode(i)
            /\ \A s \in GpuShares :
                  configure_worker(s, plan.bundle_indices).init_kwargs["seed"] = seed
            /\ \A i \in DOMAIN Groups :
                  (configure_worker(plan.num_gpus, Groups[i]).init_kwargs["seed"] = seed)
                     <=> (Groups[i] = plan.bundle_indices)

C4_Witness ==
    /\ PlannedOwner
    /\ tp_size = 2
    /\ bundle_counts = <<4, 4>>
    /\ plan.bundle_indices = <<1, <<2, 3>>>>
    /\ plan.result.init_kwargs["seed"] = 1025

\* C5 as stated: without a bundle assignment the plan keeps the requested share and
\* carries no bypass flag and no init argument.
C5_AsStated ==
    PlannedNonOwner =>
        /\ plan.result.resources["num_gpus"] = plan.num_gpus
        /\ BypassFlag \notin DOMAIN plan.result.env_vars
        /\ DOMAIN plan.result.init_kwargs = {}

\* C5 (amended): without a bundle assignment the plan requests 0 devices, sets the
\* device-visibility bypass flag and passes the requested share as fraction_of_gpus;
\* it carries no seed and no bundle indices.
C5_NonOwnerPlan ==
    PlannedNonOwner =>
        /\ plan.result.resources["num_gpus"] = 0
        /\ BypassFlag \in DOMAIN plan.result.env_vars
        /\ plan.result.env_vars[BypassFlag] = "1"
        /\ DOMAIN plan.result.init_kwargs = {"fraction_of_gpus"}
        /\ plan.result.init_kwargs["fraction_of_gpus"] = plan.num_gpus

C5_Witness ==
    /\ PlannedNonOwner
    /\ plan.num_gpus = 2
    /\ plan.result.resources["num_gpus"] = 0

\* C6: with a bundle assignment of more than one local index the device request is 0,
\* the share is passed as fraction_of_gpus and the bypass flag is set; with exactly one
\* index the share is requested unchanged and neither the flag nor the argument is set.
C6_OwnerPlan ==
    PlannedOwner =>
        LET n == Len(plan.bundle_indices[2])
            r == plan.result
        IN  /\ n > 1 => /\ r.resources["num_gpus"] = 0
                        /\ "fraction_of_gpus" \in DOMAIN r.init_kwargs
                        /\ r.init_kwargs["fraction_of_gpus"] = plan.num_gpus
                        /\ BypassFlag \in DOMAIN r.env_vars
                        /\ r.env_vars[BypassFlag] = "1"
            /\ n = 1 => /\ r.resources["num_gpus"] = plan.num_gpus
                        /\ "fraction_of_gpus" \notin DOMAIN r.init_kwargs
                        /\ BypassFlag \notin DOMAIN r.env_vars

C6_Witness ==
    /\ PlannedOwner
    /\ Len(plan.bundle_indices[2]) = 3
    /\ plan.num_gpus = 2
    /\ plan.result.init_kwargs["fraction_of_gpus"] = 2

C6_WitnessSingle ==
    /\ PlannedOwner
    /\ Len(plan.bundle_indices[2]) = 1
    /\ plan.num_gpus = 2
    /\ plan.result.resources["num_gpus"] = 2

(***************************************************************************)
(* Claims about the sampling parameters (checked under SpecText).          *)
(***************************************************************************)
ConfiguredTopK == IF cfg.top_k = None THEN -1 ELSE cfg.top_k[1]

GreedyRule(greedy, params) ==
    /\ greedy  => (params.temperature = 0 /\ params.top_k = 1)
    /\ ~greedy => (params.temperature = cfg.temperature /\ params.top_k = ConfiguredTopK)

\* C7: whatever temperature and top_k are configured (top_k unset included), the
\* sampling parameters built with greedy=True by _build_sampling_params (generate,
\* generate_async) and by generate_text have temperature 0 and top_k 1; with
\* greedy=False they carry the configured temperature and top_k (-1 when unset).
C7_GreedySampling ==
    /\ sampling.built => GreedyRule(sampling.greedy, sampling.params)
    /\ call.op = "generate_text" =>
          \A q \in DOMAIN engine_requests :
              GreedyRule(call.greedy, engine_requests[q].sampling_params)

C7_Witness ==
    /\ sampling.built /\ sampling.greedy
    /\ cfg.temperature = 10 /\ cfg.top_k = <<50>>
    /\ sampling.params.temperature = 0 /\ sampling.params.top_k = 1
    /\ call.op = "generate_text" /\ call.greedy /\ call.outcome = "returned"
    /\ engine_requests[1].sampling_params.top_k = 1

(***************************************************************************)
(* Claims about the results of generate and generate_async (under Spec).   *)
(***************************************************************************)
GenerateReturned == call.op = "generate" /\ call.outcome = "returned"
NonEmptyReturned == GenerateReturned /\ Len(call.data.input_ids) > 0

\* input row i is reproduced in its positions 1..input_length of out_row
InputPreserved(input_ids, input_lengths, i, out_row) ==
    /\ Len(out_row) >= input_lengths[i]
    /\ \A p \in 1..input_lengths[i] : out_row[p] = input_ids[i][p]

\* C8: every row i of the result of generate, and the row of every single-row batch
\* that generate_async yields for the request of row i, equals input row i at every
\* position below the declared input length of row i.
C8_InputRoundTrip ==
    /\ GenerateReturned =>
          /\ DOMAIN call.result.output_ids = DOMAIN call.data.input_ids
          /\ \A i \in DOMAIN call.data.input_ids :
                InputPreserved(call.data.input_ids, call.data.input_lengths, i,
                               call.result.output_ids[i])
    /\ \A y \in DOMAIN yielded :
          /\ Len(yielded[y].batch.output_ids) = 1
          /\ InputPreserved(acall.data.input_ids, acall.data.input_lengths,
                            RowOfRequest(yielded[y].request_id),
                            yielded[y].batch.output_ids[1])

C8_Witness ==
    /\ NonEmptyReturned
    /\ call.data.input_ids = << <<11, 0, 0>>, <<21, 22, 23>> >>
    /\ call.data.input_lengths = <<1, 3>>
    /\ Len(call.outputs[1].token_ids) = 2
    /\ call.result.output_ids[2][3] = 23

C8_WitnessAsync ==
    /\ Len(yielded) = 2
    /\ acall.data.input_lengths = <<2, 1>>
    /\ yielded[1].request_id = acall.request_ids[2]
    /\ yielded[1].batch.output_ids[1][1] = 21

\* the longest generation of the sub-batch
LongestGeneration ==
    CHOOSE m \in 0..(MaxGen + 1) :
        /\ \A i \in DOMAIN call.outputs : Len(call.outputs[i].token_ids) <= m
        /\ \E i \in DOMAIN call.outputs : Len(call.outputs[i].token_ids) = m

\* C9: for a non-empty sub-batch every output row of generate is (padded input width
\* + longest generation of the sub-batch) wide; from its input length on, row i holds
\* its own generated tokens, in order, and then only the pad token.
C9_OutputLayout ==
    NonEmptyReturned =>
        \A i \in DOMAIN call.data.input_ids :
            LET row == call.result.output_ids[i]
                n   == call.data.input_lengths[i]
                gen == call.outputs[i].token_ids
            IN  /\ Len(row) = Len(call.data.input_ids[1]) + LongestGeneration
                /\ \A p \in (n + 1)..Len(row) :
                      row[p] = IF p <= n + Len(gen) THEN gen[p - n]
                               ELSE cfg.pad_token_id

\* the scenario of the specification at scale: input lengths 1 and 2 padded to width
\* 3, generations of 1 and 2 tokens, output width 3 + 2
C9_Witness ==
    /\ NonEmptyReturned
    /\ call.data.input_ids = << <<11, 0, 0>>, <<21, 22, 0>> >>
    /\ call.data.input_lengths = <<1, 2>>
    /\ call.outputs[1].token_ids = <<111>>
    /\ call.outputs[2].token_ids = <<121, 122>>
    /\ call.result.output_ids = << <<11, 111, 0, 0, 0>>, <<21, 22, 121, 122, 0>> >>

RequiredFields ==
    {"output_ids", "logprobs", "generation_lengths", "unpadded_sequence_lengths"}

\* C10: generate on a batch of zero rows returns a result of zero rows that has the
\* four required fields, and submits nothing to the engine.
C10_EmptyBatch ==
    (call.op = "generate" /\ Len(call.data.input_ids) = 0) =>
        /\ call.outcome = "returned"
        /\ DOMAIN call.result = RequiredFields
        /\ \A f \in RequiredFields : Len(call.result[f]) = 0
        /\ engine_requests = <<>>

C10_Witness ==
    /\ call.op = "generate"
    /\ Len(call.data.input_ids) = 0
    /\ call.outcome = "returned"
    /\ llm = "LLM"

(***************************************************************************)
(* Claims about the entry points of a worker and about the orchestrator    *)
(* (checked under SpecSys).                                                *)
(***************************************************************************)
Served == ocall.op # "none"
OnWorker == Served /\ ocall.target > 0
OnOrchestrator == Served /\ ocall.target = 0

\* C11: generate_async called on a worker, or on the orchestrator, whose configuration
\* does not select the asynchronous engine raises the mode-mismatch error
\* (RuntimeError): no request reached an engine, nothing was yielded and the
\* orchestrator dispatched no call to a worker.
C11_AsyncNeedsAsyncEngine ==
    (Served /\ ocall.op = "generate_async" /\ ~cfg.async_engine) =>
        /\ ocall.outcome = "raised"
        /\ ocall.error = "RuntimeError"
        /\ ocall.engine = <<>>
        /\ ocall.value = <<>>
        /\ ocall.dispatched = <<>>

\* generate_async with one row was called on the engine owner of a synchronous group
C11_Witness ==
    /\ OnWorker /\ ocall.op = "generate_async" /\ ~cfg.async_engine
    /\ workers[ocall.target] = "LLM"
    /\ Len(ocall.arg.input_ids) = 1
    /\ ocall.outcome = "raised"

\* the orchestrator of a synchronous group was asked for generate_async with rows
C11_WitnessOrchestrator ==
    /\ OnOrchestrator /\ ocall.op = "generate_async" /\ ~cfg.async_engine
    /\ Len(ocall.arg.data.input_ids) = MaxRows
    /\ ocall.outcome = "raised"

\* the entry points of the synchronous and of the asynchronous flavor
SyncEntryPoints ==
    {"generate", "generate_text", "sleep", "wake_up", "report_device_id"}
AsyncEntryPoints ==
    {"generate_async", "sleep_async", "wake_up_async", "report_device_id_async"}
WrongFlavor ==
    \/ cfg.async_engine /\ ocall.op \in SyncEntryPoints
    \/ ~cfg.async_engine /\ ocall.op \in AsyncEntryPoints

\* C12: on a worker that owns a ready engine, an entry point of the wrong flavor for
\* the configured engine fails with the mode-mismatch error (RuntimeError) before any
\* call reaches the engine.
C12_AsStated ==
    (OnWorker /\ workers[ocall.target] # "None" /\ WrongFlavor) =>
        /\ ocall.outcome = "raised"
        /\ ocall.error = "RuntimeError"
        /\ ocall.engine = <<>>

C13_WitnessOrchestrator ==
    /\ OnOrchestrator /\ ocall.op = "shutdown"
    /\ ocall.dispatched = <<>>
    /\ ocall.value = <<TRUE>>

\* the handle map lacks a device id recorded in self.device_uuids
LacksRecordedId(ipc_handles) ==
    \E g \in DOMAIN device_uuids : ~(IdsOf(device_uuids, g) \subseteq DOMAIN ipc_handles)

\* C14: update_weights given a handle map that lacks a recorded device id raises
\* (KeyError) when the worker group has workers and returns False when it has none,
\* whatever the workers would have answered, and dispatches no weight update.
C14_MissingHandleRefused ==
    (OnOrchestrator /\ ocall.op = "update_weights" /\ LacksRecordedId(ocall.arg)) =>
        /\ ocall.dispatched = <<>>
        /\ IF workers = <<>>
           THEN ocall.outcome = "returned" /\ ocall.value = <<FALSE>>
           ELSE ocall.outcome = "raised" /\ ocall.error = "KeyError"

\* handles were given for some devices of a live worker group, and not for all
C14_Witness ==
    /\ OnOrchestrator /\ ocall.op = "update_weights" /\ LacksRecordedId(ocall.arg)
    /\ DOMAIN ocall.arg # {}
    /\ workers # <<>>
    /\ ocall.outcome = "raised"

\* C15: the handle map update_weights dispatches for tied group g goes to the owner of
\* group g, holds exactly the device ids that worker's group reported, and maps each to
\* the handle the caller gave for it.
C15_HandlesRouted ==
    (OnOrchestrator /\ ocall.op = "update_weights") =>
        \A g \in DOMAIN ocall.dispatched :
            LET d == ocall.dispatched[g]
            IN  /\ d.worker = layout[g][1]
                /\ DOMAIN d.data = IdsOf(device_uuids, GroupOf(d.worker))
                /\ \A u \in DOMAIN d.data : d.data[u] = ocall.arg[u]

\* two tied groups of two devices were sent their handles by a caller that also held
\* a handle of a device of no worker
C15_Witness ==
    /\ OnOrchestrator /\ ocall.op = "update_weights"
    /\ Len(ocall.dispatched) = 2 /\ Len(layout[1]) = 2
    /\ 99 \in DOMAIN ocall.arg

\* the operations of the orchestrator that shard a batch
ShardedOps == {"generate", "generate_text", "generate_async"}
RowsGiven ==
    IF ocall.op = "generate_text" THEN Len(ocall.arg.data.prompts)
    ELSE Len(ocall.arg.data.input_ids)

\* C16: a batch of any size given to generate, generate_text or generate_async is
\* sharded over the tied groups only: the call does not fail for a size the number of
\* groups does not divide, each shard goes to one tied group and every row is in
\* exactly one shard.
C16_AsStated ==
    (/\ OnOrchestrator /\ ocall.op \in ShardedOps
     /\ ~(ocall.op = "generate_async" /\ ~cfg.async_engine)) =>
        /\ ~(ocall.outcome = "raised" /\ ocall.error = "AssertionError")
        /\ Len(ocall.dispatched) = Len(layout)
        /\ \A g \in DOMAIN ocall.dispatched :
              ocall.dispatched[g].worker = layout[g][1]
        /\ \A i \in 1..RowsGiven :
              Cardinality({<<g, j>> \in
                              UNION {{<<g, j>> : j \in DOMAIN ocall.dispatched[g].data} :
                                     g \in DOMAIN ocall.dispatched} :
                            ocall.dispatched[g].data[j] = i}) = 1

\* C17: in whatever order the tied groups completed, the batch generate returns holds
\* the rows in the order of the input: row i of output_ids starts with the tokens of
\* row i of the input, and there are as many rows as in the input.
C17_ShardOrderRestored ==
    (OnOrchestrator /\ ocall.op = "generate" /\ ocall.outcome = "returned") =>
        LET data == ocall.arg.data
            combined == ocall.value[1]
        IN  /\ Len(combined.output_ids) = Len(data.input_ids)
            /\ Len(combined.generation_lengths) = Len(data.input_ids)
            /\ \A i \in DOMAIN data.input_ids :
                  /\ \A p \in 1..data.input_lengths[i] :
                        combined.output_ids[i][p] = data.input_ids[i][p]
                  /\ combined.unpadded_sequence_lengths[i] =
                        data.input_lengths[i] + combined.generation_lengths[i]

\* a batch of three rows was served by two tied groups, the second done first
C17_Witness ==
    /\ OnOrchestrator /\ ocall.op = "generate" /\ ocall.outcome = "returned"
    /\ ocall.order = <<2, 1>>
    /\ Len(ocall.arg.data.input_ids) = 3
    /\ ocall.value[1].generation_lengths = <<0, MaxGen, MaxGen>>

RequiredKeysOf(op) ==
    IF op = "generate_text" THEN {"texts"}
    ELSE {"output_ids", "generation_lengths", "unpadded_sequence_lengths", "logprobs"}

\* C18: a generation call of the orchestrator that returns, returns a batch with every
\* required field; when a required field is missing from the combined batch the call
\* raises ValueError and names the missing fields.
C18_CompleteOrRaises ==
    (OnOrchestrator /\ ocall.op \in ShardedOps) =>
        /\ ocall.outcome = "returned" =>
              RequiredKeysOf(ocall.op) \subseteq DOMAIN ocall.value[1]
        /\ (ocall.outcome = "raised" /\ ocall.error = "ValueError") =>
              /\ ocall.missing # {}
              /\ ocall.missing \subseteq RequiredKeysOf(ocall.op)
        /\ (/\ ocall.op = "generate_async" /\ cfg.async_engine
            /\ ocall.env.answer = "incomplete") =>
              /\ ocall.outcome = "raised" /\ ocall.error = "ValueError"
              /\ ocall.missing = {"unpadded_sequence_lengths", "logprobs"}

\* the worker group handed back batches without two of the required fields
C18_Witness ==
    /\ OnOrchestrator /\ ocall.op = "generate_async" /\ cfg.async_engine
    /\ ocall.env.answer = "incomplete"
    /\ ocall.outcome = "raised"
    /\ Len(ocall.arg.data.input_ids) = MaxRows

\* the engine calls the entry point dispatched by a lifecycle operation makes
WantedBy(op) ==
    IF op = "finish_generation" THEN <<"reset_prefix_cache", "sleep">> ELSE <<"wake_up">>

\* a call dispatched by the last lifecycle operation raised: the worker holds no
\* engine, or its engine raised
SomeCallRaised ==
    \E g \in DOMAIN ocall.dispatched :
        \/ workers[ocall.dispatched[g].worker] = "None"
        \/ EngineRaises(WantedBy(ocall.op), ocall.env.nd[g].eng)

LifecycleOps == {"prepare_for_generation", "finish_generation"}

\* C19: prepare_for_generation and finish_generation always return: False when a
\* worker could not be reached or a dispatched call raised, and otherwise the
\* conjunction of the results, which is True for workers that return None.
C19_LifecycleNeverRaises ==
    (OnOrchestrator /\ ocall.op \in LifecycleOps) =>
        /\ ocall.outcome = "returned"
        /\ ocall.value = << ocall.env.ray_ok /\ ~SomeCallRaised >>

\* finish_generation found the owner of a tied group without its engine
C19_Witness ==
    /\ OnOrchestrator /\ ocall.op = "finish_generation"
    /\ ocall.env.ray_ok
    /\ \E g \in DOMAIN ocall.dispatched : workers[ocall.dispatched[g].worker] = "None"
    /\ ocall.value = <<FALSE>>

\* every owner woke up and returned None
C19_WitnessAllNone ==
    /\ OnOrchestrator /\ ocall.op = "prepare_for_generation"
    /\ Len(ocall.dispatched) = MaxDP
    /\ ocall.value = <<TRUE>>

\* the weight update dispatched to tied group g reported success
UpdateSucceeded(g) ==
    LET d == ocall.dispatched[g]
    IN  Serve(cfg, workers[d.worker], d.method, d.data, ocall.env.nd[g]).value = <<TRUE>>

\* C20: update_weights returns True only if there are workers, every call was
\* dispatched and awaited without an error and every dispatched call reported
\* success; when it returns and one of these fails, it returns False.
C20_UpdateAllOrFalse ==
    (OnOrchestrator /\ ocall.op = "update_weights" /\ ocall.outcome = "returned") =>
        ocall.value =
            << /\ workers # <<>>
               /\ ocall.env.ray_ok
               /\ \A g \in DOMAIN ocall.dispatched : UpdateSucceeded(g) >>

\* the first of two tied groups reported success and the second did not
C20_Witness ==
    /\ OnOrchestrator /\ ocall.op = "update_weights" /\ ocall.outcome = "returned"
    /\ Len(ocall.dispatched) = 2
    /\ ocall.env.ray_ok
    /\ UpdateSucceeded(1) /\ ~UpdateSucceeded(2)
    /\ ocall.value = <<FALSE>>

(***************************************************************************)
(* Claims about the weight update, the shutdown and the sleep of a worker. *)
(***************************************************************************)
UpdateEntryPoints ==
    {"update_weights_from_ipc_handles", "update_weights_from_ipc_handles_async"}

\* C21: update_weights_from_ipc_handles and its async counterpart, called on a
\* worker, return True only if the broadcast call raised nothing and every internal
\* worker of the engine reported success; one internal worker reporting failure,
\* whichever it is, makes the call return False.
C21_AsStated ==
    (OnWorker /\ ocall.op \in UpdateEntryPoints) =>
        /\ ocall.outcome = "returned"
        /\ ocall.value = <<TRUE>> =>
              /\ ~ocall.env.rpc.raises
              /\ \A t \in DOMAIN ocall.env.rpc.results : ocall.env.rpc.results[t]
        /\ (\E t \in DOMAIN ocall.env.rpc.results : ~ocall.env.rpc.results[t]) =>
              ocall.value = <<FALSE>>

\* C22: the outcome of a weight update called on a worker that owns no engine, or
\* through the entry point of the other engine flavor, differs from the outcome of an
\* update that failed (the value False).
C22_AsStated ==
    (/\ OnWorker /\ ocall.op \in UpdateEntryPoints
     /\ \/ workers[ocall.target] = "None"
        \/ cfg.async_engine # (ocall.op = "update_weights_from_ipc_handles_async")) =>
        ~(ocall.outcome = "returned" /\ ocall.value = <<FALSE>>)

\* C23: shutdown called on a worker in any state (owner of an engine of either
\* flavor, non-owner, already shut down, construction raised before self.llm was
\* assigned), whether or not stopping the background loop raises, returns a boolean
\* and does not raise; when it returns True, self.llm is None afterwards.
C23_ShutdownReturnsBoolean ==
    (call.op = "shutdown") =>
        /\ call.outcome = "returned"
        /\ call.result \in {<<TRUE>>, <<FALSE>>}
        /\ call.result = <<TRUE>> => llm = "None"

\* shutdown was called on a worker of the asynchronous flavor whose construction had
\* raised before the engine handle was assigned
C23_Witness ==
    /\ call.op = "shutdown" /\ call.before = "Unset" /\ cfg.async_engine
    /\ call.outcome = "returned"
    /\ call.result = <<FALSE>>

\* stopping the background loop of an asynchronous engine raised during shutdown
C23_WitnessLoopRaises ==
    /\ call.op = "shutdown" /\ call.before = "AsyncLLMEngine"
    /\ call.eng = "raises_first"
    /\ call.result = <<TRUE>> /\ llm = "None"

\* the ranks built without bundle indices: every rank of a tied group but its first
NonOwnerRanks == {w \in DOMAIN workers : (w - 1) % Len(layout[1]) # 0}

GenerationEntryPoints == {"generate", "generate_async", "generate_text"}

\* C24: a worker built without bundle indices holds no engine, whatever was called
\* since, and every generate, generate_async and generate_text called on it, with an
\* empty batch or not, raises instead of returning.
C24_AsStated ==
    /\ \A w \in NonOwnerRanks : workers[w] = "None"
    /\ (OnWorker /\ ocall.target \in NonOwnerRanks
          /\ ocall.op \in GenerationEntryPoints) =>
            ocall.outcome = "raised"

\* C25: in every execution of sleep and of sleep_async on a worker, the engine is
\* asked to release its memory (sleep) only after it was asked to reset its prefix
\* cache, and not at all when the reset raised.
C25_ResetBeforeSleep ==
    (OnWorker /\ ocall.op \in {"sleep", "sleep_async"}) =>
        /\ \A p \in DOMAIN ocall.engine :
              ocall.engine[p] = "sleep" =>
                  \E q \in 1..(p - 1) : ocall.engine[q] = "reset_prefix_cache"
        /\ ocall.env.eng = "raises_first" =>
              \A p \in DOMAIN ocall.engine : ocall.engine[p] # "sleep"

\* sleep ran to its end on the owner of a synchronous engine
C25_Witness ==
    /\ OnWorker /\ ocall.op = "sleep" /\ ocall.outcome = "returned"
    /\ ocall.engine = <<"reset_prefix_cache", "sleep">>

\* the reset of the prefix cache raised in sleep_async
C25_WitnessResetRaises ==
    /\ OnWorker /\ ocall.op = "sleep_async" /\ ocall.outcome = "raised"
    /\ ocall.env.eng = "raises_first"
    /\ ocall.engine = <<"reset_prefix_cache">>

(***************************************************************************)
(* Claims about the requests of generate_async (checked under Spec).       *)
(***************************************************************************)
\* generate_async issued its requests
RequestsIssued == acall.op = "generate_async" /\ DOMAIN task_futures # {}

YieldedFor(r) == {p \in DOMAIN yielded : yielded[p].request_id = r}

\* C26: once generate_async has issued its requests, a request whose task raises or
\* ends without a final output yields nothing and does not end the sequence: the
\* call does not raise, and every request whose task completed with an output is
\* yielded.
C26_AsStated ==
    RequestsIssued =>
        /\ acall.outcome # "raised"
        /\ \A r \in DOMAIN task_futures :
              /\ task_futures[r] \in {"failed", "none"} => YieldedFor(r) = {}
              /\ task_futures[r] = "yielded" => YieldedFor(r) # {}

\* C27: generate_async issues one engine request per row of the batch, for the
\* prompt of that row and under an identifier no other request has; every batch it
\* yields has one row, no request is yielded twice, and a batch is yielded exactly
\* when a task completes with an output, for the request of that task and after all
\* the batches yielded before: the order of the yields is the order of completion.
C27_OnePerRowInCompletionOrder ==
    [][ (acall'.op = "generate_async" /\ DOMAIN task_futures' # {}) =>
          /\ DOMAIN engine_requests' = DOMAIN acall'.data.input_ids
          /\ \A i \in DOMAIN engine_requests' :
                /\ engine_requests'[i].prompt = Prompts(acall'.data)[i]
                /\ \A j \in DOMAIN engine_requests' :
                      i # j => engine_requests'[i].request_id
                                  # engine_requests'[j].request_id
          /\ \A p \in DOMAIN yielded' :
                /\ Len(yielded'[p].batch.output_ids) = 1
                /\ \A q \in DOMAIN yielded' :
                      p # q => yielded'[p].request_id # yielded'[q].request_id
          /\ \A r \in DOMAIN task_futures \cap DOMAIN task_futures' :
                (task_futures[r] = "pending" /\ task_futures'[r] = "yielded") =>
                    /\ Len(yielded') = Len(yielded) + 1
                    /\ SubSeq(yielded', 1, Len(yielded)) = yielded
                    /\ yielded'[Len(yielded')].request_id = r
          /\ (\A r \in DOMAIN task_futures \cap DOMAIN task_futures' :
                 task_futures'[r] = "yielded" => task_futures[r] = "yielded") =>
                    yielded' = yielded ]_vars

\* the request of the second row completed first, the request of the first row after
\* it, and both were yielded in that order
C27_Witness ==
    /\ acall.op = "generate_async" /\ acall.outcome = "returned"
    /\ Len(acall.data.input_ids) = 2
    /\ Len(yielded) = 2
    /\ yielded[1].request_id = acall.request_ids[2]
    /\ yielded[2].request_id = acall.request_ids[1]

\* C28: whatever the order in which the requests complete, the batch yielded for a
\* request holds the valid tokens of the input row that request was issued for,
\* followed by the tokens generated for it, in a row as long as that padded input row
\* plus the generation, and counts that row's input length in its unpadded length.
C28_RowOfItsOwnRequest ==
    (acall.op = "generate_async") =>
        \A p \in DOMAIN yielded :
            LET i   == RowOfRequest(yielded[p].request_id)
                n   == acall.data.input_lengths[i]
                gen == yielded[p].output.token_ids
                row == yielded[p].batch.output_ids[1]
            IN  /\ Len(row) = Len(acall.data.input_ids[i]) + Len(gen)
                /\ \A k \in 1..n : row[k] = acall.data.input_ids[i][k]
                /\ \A k \in 1..Len(gen) : row[n + k] = gen[k]
                /\ yielded[p].batch.unpadded_sequence_lengths = <<n + Len(gen)>>
                /\ yielded[p].batch.generation_lengths = <<Len(gen)>>

\* two rows of different lengths: the request of the longer, second row was yielded
\* first, with its generation, while the request of the first row was still running
C28_Witness ==
    /\ acall.op = "generate_async" /\ acall.outcome = "running"
    /\ acall.data.input_lengths = <<1, MaxWidth>>
    /\ Len(yielded) = 1
    /\ yielded[1].request_id = acall.request_ids[2]
    /\ Len(yielded[1].output.token_ids) = MaxGen

(***************************************************************************)
(* Claims about the sharding layout (under SpecPlan) and about the         *)
(* dispatch of a generation (under SpecSys).                               *)
(***************************************************************************)
\* the orchestrator has its sharding annotations and its tied worker groups
Constructed == layout # <<>> /\ tied_worker_groups.outcome = "returned"

\* the workers created for the tied groups: one per bundle index of every group
RECURSIVE WorkerCount(_, _)
WorkerCount(groups, p) ==
    IF p > Len(groups) THEN 0 ELSE Len(groups[p][2]) + WorkerCount(groups, p + 1)

\* C29: once the orchestrator is constructed, the layout holds as many ranks as
\* there are workers and has one row per tied group of the partitioner, for every
\* cluster, nodes whose bundle count is not a multiple of tensor_parallel_size
\* included.
C29_AsStated ==
    Constructed =>
        /\ Len(layout) = Len(tied_worker_groups.value)
        /\ Len(layout) * Len(layout[1]) = WorkerCount(tied_worker_groups.value, 1)

\* C30: in generate, generate_text and generate_async of the orchestrator, the shard
\* of a tied group is dispatched to one worker, the tensor-parallel rank 0 of that
\* group, no call goes to another rank, one future per tied group is awaited and the
\* combined batch has one row per row given.
C30_OwnerOnly ==
    (OnOrchestrator /\ ocall.op \in ShardedOps /\ ocall.dispatched # <<>>) =>
        /\ Len(ocall.dispatched) = Len(layout)
        /\ \A g \in DOMAIN ocall.dispatched :
              /\ ocall.dispatched[g].worker = layout[g][1]
              /\ ocall.dispatched[g].worker \notin NonOwnerRanks
        /\ futures # <<>> => Len(futures) = Len(layout)
        /\ ocall.outcome = "returned" =>
              Len(IF ocall.op = "generate_text" THEN ocall.value[1].texts
                  ELSE ocall.value[1].output_ids) = RowsGiven

\* two tied groups of two workers each generated for a batch of three rows
C30_Witness ==
    /\ OnOrchestrator /\ ocall.op = "generate" /\ ocall.outcome = "returned"
    /\ Len(layout) = 2 /\ Len(layout[1]) = 2
    /\ Len(ocall.arg.data.input_ids) = 3
    /\ ocall.dispatched[1].worker = 1 /\ ocall.dispatched[2].worker = 3
    /\ Len(ocall.value[1].output_ids) = 3

(***************************************************************************)
(* Claims about the log-probabilities and the lengths of a result (under   *)
(* Spec).                                                                  *)
(***************************************************************************)
\* what the engine reported for the k-th token it emitted in `output`, 0 when it
\* reported nothing for that step
Reported(output, k) ==
    IF output.logprobs = None \/ output.logprobs[k] = None THEN 0
    ELSE LET v == DictGet(output.logprobs[k], output.token_ids[k], 1)
         IN  IF v = None THEN 0 ELSE v[1]

\* the row of log-probabilities that belongs to an input of n valid tokens and to the
\* engine's answer `output`
IsLogprobRow(row, n, output) ==
    \A p \in DOMAIN row :
        row[p] = IF p - n \in 1..Len(output.token_ids) THEN Reported(output, p - n)
                 ELSE 0

\* C31: in the result of generate, the log-probability at position input_length + k
\* of row i is what the engine reported for the k-th token it emitted for row i, or 0
\* when it reported nothing for that step, and every other position of the row holds
\* 0; the same holds for the row of every batch generate_async yields.
C31_LogprobsOfEmittedTokens ==
    /\ NonEmptyReturned =>
          \A i \in DOMAIN call.data.input_ids :
              /\ Len(call.result.logprobs[i]) = Len(call.result.output_ids[i])
              /\ IsLogprobRow(call.result.logprobs[i], call.data.input_lengths[i],
                              call.outputs[i])
    /\ acall.op = "generate_async" =>
          \A p \in DOMAIN yielded :
              IsLogprobRow(yielded[p].batch.logprobs[1],
                           acall.data.input_lengths[RowOfRequest(yielded[p].request_id)],
                           yielded[p].output)

\* the engine reported no log-probability for the first of the two tokens it emitted
\* for a row of two valid tokens, padded to three
C31_Witness ==
    /\ NonEmptyReturned
    /\ call.data.input_lengths = <<2>>
    /\ Len(call.data.input_ids[1]) = 3
    /\ Len(call.outputs[1].token_ids) = 2
    /\ call.outputs[1].logprobs # None
    /\ call.outputs[1].logprobs[1] = None
    /\ call.result.logprobs[1] = <<0, 0, 0, LogprobOf(1, 2), 0>>

\* C32: in every row of a result of generate and in every single-row batch
\* generate_async yields, generation_length is the number of tokens the engine
\* produced for the row and unpadded_sequence_length is the row's declared input
\* length plus that number.
C32_LengthsOfEveryRow ==
    /\ NonEmptyReturned =>
          /\ Len(call.result.generation_lengths) = Len(call.data.input_ids)
          /\ Len(call.result.unpadded_sequence_lengths) = Len(call.data.input_ids)
          /\ \A i \in DOMAIN call.data.input_ids :
                /\ call.result.generation_lengths[i] = Len(call.outputs[i].token_ids)
                /\ call.result.unpadded_sequence_lengths[i] =
                      call.data.input_lengths[i] + call.result.generation_lengths[i]
    /\ acall.op = "generate_async" =>
          \A p \in DOMAIN yielded :
              LET batch == yielded[p].batch
                  row   == RowOfRequest(yielded[p].request_id)
              IN  /\ Len(batch.generation_lengths) = 1
                  /\ Len(batch.unpadded_sequence_lengths) = 1
                  /\ batch.generation_lengths[1] = Len(yielded[p].output.token_ids)
                  /\ batch.unpadded_sequence_lengths[1] =
                        acall.data.input_lengths[row] + batch.generation_lengths[1]

\* two padded rows of different declared lengths got different numbers of tokens
C32_Witness ==
    /\ NonEmptyReturned
    /\ Len(call.data.input_ids) = 2
    /\ Len(call.data.input_ids[1]) = 3
    /\ call.data.input_lengths = <<1, 2>>
    /\ call.result.generation_lengths = <<2, 1>>
    /\ call.result.unpadded_sequence_lengths = <<3, 3>>

\* a single-row batch was yielded for a padded row
C32_WitnessAsync ==
    /\ acall.op = "generate_async"
    /\ \E p \in DOMAIN yielded :
          LET row == RowOfRequest(yielded[p].request_id)
          IN  /\ acall.data.input_lengths[row] < Len(acall.data.input_ids[row])
              /\ yielded[p].batch.generation_lengths = <<MaxGen>>
              /\ yielded[p].batch.unpadded_sequence_lengths =
                    <<acall.data.input_lengths[row] + MaxGen>>

(***************************************************************************)
(* Claims about the entry points the orchestrator dispatches (under       *)
(* SpecSys).                                                               *)
(***************************************************************************)
\* the worker entry points that belong to the engine flavor of the configuration
EntryPointsOfFlavor(selfcfg) ==
    IF selfcfg.async_engine
    THEN AsyncEntryPoints \cup {"update_weights_from_ipc_handles_async"}
    ELSE SyncEntryPoints \cup {"update_weights_from_ipc_handles"}

\* the worker entry points that exist in one variant per flavor
FlavoredEntryPoints == SyncEntryPoints \cup AsyncEntryPoints \cup UpdateEntryPoints

\* C33: every worker entry point an orchestrator call dispatches (generate,
\* generate_text, generate_async, wake, sleep, weight update) is the one that belongs
\* to the engine flavor fixed at construction, so no orchestrator call makes a worker
\* call the engine through the interface of the other flavor.
C33_AsStated ==
    OnOrchestrator =>
        \A g \in DOMAIN ocall.dispatched :
            ocall.dispatched[g].method \in FlavoredEntryPoints =>
                ocall.dispatched[g].method \in EntryPointsOfFlavor(cfg)

(***************************************************************************)
(* Claims about a worker after its shutdown (under SpecSys).               *)
(***************************************************************************)
\* the owners whose engine handle is empty: every owner is constructed with an
\* engine, so these are the owners whose shutdown returned True
OwnersShutDown ==
    {w \in DOMAIN workers : w \notin NonOwnerRanks /\ workers[w] = "None"}

\* the call was refused by one of the explicit checks of the entry point: the assertion
\* on the engine handle or the check of the engine flavor
FailsPrecondition ==
    ocall.outcome = "raised" /\ ocall.error \in {"AssertionError", "RuntimeError"}

\* C34: on a worker whose shutdown has returned True, every later sleep, wake_up,
\* report_device_id and non-empty generate call, and every call of their async
\* counterparts, fails with a precondition failure, and every later weight update
\* returns False.
C34_AsStated ==
    (OnWorker /\ ocall.op # "shutdown" /\ ocall.target \in OwnersShutDown) =>
        /\ ocall.op \in {"sleep", "sleep_async", "wake_up", "wake_up_async",
                         "report_device_id", "report_device_id_async"} =>
              FailsPrecondition
        /\ (ocall.op \in {"generate", "generate_async"} /\ ocall.arg.input_ids # <<>>) =>
              FailsPrecondition
        /\ ocall.op \in UpdateEntryPoints =>
              (ocall.outcome = "returned" /\ ocall.value = <<FALSE>>)

(***************************************************************************)
(* Claims about the termination of generate_async (under SpecAsyncFair).   *)
(***************************************************************************)
AsyncRunning == acall.op = "generate_async" /\ acall.outcome = "running"
PendingTasks == {r \in DOMAIN task_futures : task_futures[r] = "pending"}
\* the positions of the yielded sequence that hold the batch of request r
YieldedAt(r) == {p \in DOMAIN yielded : yielded[p].request_id = r}

\* at every moment of a call, each request that completed with an output has exactly
\* one single-row batch in the yielded sequence and no other request has any
OneBatchPerCompleted ==
    acall.op = "generate_async" =>
        /\ \A r \in DOMAIN task_futures :
              Cardinality(YieldedAt(r)) = IF task_futures[r] = "yielded" THEN 1 ELSE 0
        /\ \A p \in DOMAIN yielded :
              /\ yielded[p].request_id \in DOMAIN task_futures
              /\ Len(yielded[p].batch.output_ids) = 1

C35_WitnessPendingSibling ==
    /\ AsyncRunning
    /\ \E r, q \in DOMAIN task_futures :
          /\ task_futures[r] = "yielded" /\ task_futures[q] = "pending"
          /\ Len(yielded) = 1 /\ yielded[1].request_id = r

====
